---------------------------- MODULE Spec2Model ----------------------------
(***************************************************************************)
(* Multi-frame super-resolution (chicha-superresolution).                  *)
(*                                                                         *)
(* Three stages of the program are modelled, each as its own               *)
(* specification over the same variables:                                  *)
(*   SpecOverlap  findOverlap: one goroutine per candidate offset, a       *)
(*                buffered results channel, a closer goroutine and the     *)
(*                consuming min-fold; beside it the sequential             *)
(*                estimateTranslation loop of the earlier revision.        *)
(*   SpecAlign    findAndAlignImages (one goroutine per frame) and the     *)
(*                sequential alignImages.                                  *)
(*   SpecFusion   the fusion stage of performSuperResolution: producer,    *)
(*                task channel, WaitGroup, the workers' per-cell           *)
(*                read-modify-write steps, then normalization.             *)
(***************************************************************************)
EXTENDS Integers, Sequences, FiniteSets, TLC

(***************************************************************************)
(* Bounds of the model.                                                    *)
(***************************************************************************)
\* search radius used by the model (the program: 50 in findOverlap, 10 in
\* estimateTranslation)
maxShift == 1

(***************************************************************************)
(* Rasters.  A raster is [w, h, pix] with bounds (0,0)-(w,h); a pixel is   *)
(* <<r, g, b>> of 8-bit samples, alpha being 255 throughout.               *)
(***************************************************************************)
Coords(w, h) == (0 .. w - 1) \X (0 .. h - 1)

Black == <<0, 0, 0>>

White == <<255, 255, 255>>

\* image.At(x, y)
At(img, x, y) == img.pix[<<x, y>>]

InBounds(img, x, y) == x >= 0 /\ x < img.w /\ y >= 0 /\ y < img.h

\* color.RGBA(): an opaque 8-bit sample c becomes the 16-bit c<<8 | c
RGBA16(c) == c * 256 + c

\* v >> 8
Shr8(v) == v \div 256

\* one channel as the code reads it: At(x, y).RGBA() then >> 8
Sample(img, x, y, ch) == Shr8(RGBA16(At(img, x, y)[ch]))

(***************************************************************************)
(* float64 values of the difference metric.                                *)
(*                                                                         *)
(* A uint32 difference a - b is kept as [k, r] standing for k*2^32 + r     *)
(* (k = 1 when the subtraction wrapped, r = a - b as an integer), because  *)
(* TLC's integers are narrower than 2^32.  A float64 value is kept as      *)
(* [max, hi, mid, lo, den] standing for (hi*2^64 + mid*2^33 + lo) / den,   *)
(* or for math.MaxFloat64 when max is TRUE.  With the Palette's samples and *)
(* rasters of a few pixels lo stays below 2^10, half the spacing of        *)
(* float64 values at 2^64, so a float64 sum that holds a wrapped term      *)
(* rounds every small term away: lo is 0 whenever hi > 0.                  *)
(***************************************************************************)
MaxFloat64 == [max |-> TRUE, hi |-> 0, mid |-> 0, lo |-> 0, den |-> 1]

FZero == [max |-> FALSE, hi |-> 0, mid |-> 0, lo |-> 0, den |-> 1]

\* uint32 subtraction (a >> 8) - (b >> 8), modulo 2^32
Sub32(a, b) == [k |-> IF a >= b THEN 0 ELSE 1, r |-> a - b]

\* float64(d) * float64(d), rounded to float64
FSquare(d) ==
  [max |-> FALSE, hi |-> d.k * d.k, mid |-> d.k * d.r,
   lo |-> IF d.k > 0 THEN 0 ELSE d.r * d.r, den |-> 1]

\* float64 addition of two sums (den = 1), rounded to float64
FAdd(a, b) ==
  [max |-> FALSE, hi |-> a.hi + b.hi, mid |-> a.mid + b.mid,
   lo |-> IF a.hi + b.hi > 0 THEN 0 ELSE a.lo + b.lo, den |-> 1]

\* total / float64(count)
FDiv(a, n) == [a EXCEPT !.den = n]

\* a < b on float64
FLess(a, b) ==
  IF a.max THEN FALSE
  ELSE IF b.max THEN TRUE
  ELSE LET ah == a.hi * b.den
           bh == b.hi * a.den
           am == a.mid * b.den
           bm == b.mid * a.den
           al == a.lo * b.den
           bl == b.lo * a.den
       IN  \/ ah < bh
           \/ ah = bh /\ am < bm
           \/ ah = bh /\ am = bm /\ al < bl

FLeq(a, b) == ~FLess(b, a)

FEq(a, b) == ~FLess(a, b) /\ ~FLess(b, a)

\* the float64 of a small non-negative integer
FInt(n) == [max |-> FALSE, hi |-> 0, mid |-> 0, lo |-> n, den |-> 1]


(***************************************************************************)
(* Difference Metric.                                                      *)
(***************************************************************************)
\* dr*dr + dg*dg + db*db for one compared pixel pair, p from the reference
\* and q from the candidate, each a triple of samples already shifted >> 8
PixelDiff(p, q) ==
  FAdd(FAdd(FSquare(Sub32(p[1], q[1])), FSquare(Sub32(p[2], q[2]))),
       FSquare(Sub32(p[3], q[3])))

\* the three samples of pixel (x, y) as the metric reads them
Samples(img, x, y) ==
  <<Sample(img, x, y, 1), Sample(img, x, y, 2), Sample(img, x, y, 3)>>

\* *image.RGBA.At outside the rectangle yields the zero colour
SamplesOrZero(img, x, y) ==
  IF InBounds(img, x, y) THEN Samples(img, x, y) ELSE <<0, 0, 0>>

\* calculateDifference's test before its continue: the candidate coordinate
\* is outside the candidate's bounds
DiffSkips(refImg, img, imgX, imgY) == ~InBounds(img, imgX, imgY)

\* computeSSD's test before its continue: the candidate coordinate is
\* outside bounds, which is refImg.Bounds()
SSDSkips(refImg, img, imgX, imgY) == ~InBounds(refImg, imgX, imgY)

RECURSIVE DiffScan(_, _, _, _, _)
\* calculateDifference's totalDiff and count after the first i reference
\* pixels of its scan (y outer, x inner)
DiffScan(refImg, img, dx, dy, i) ==
  IF i = 0 THEN [totalDiff |-> FZero, count |-> 0]
  ELSE LET acc == DiffScan(refImg, img, dx, dy, i - 1)
           x == (i - 1) % refImg.w
           y == (i - 1) \div refImg.w
           imgX == x + dx
           imgY == y + dy
       IN  IF DiffSkips(refImg, img, imgX, imgY) THEN acc
           ELSE [totalDiff |->
                   FAdd(acc.totalDiff,
                        PixelDiff(Samples(refImg, x, y), Samples(img, imgX, imgY))),
                 count |-> acc.count + 1]

\* a metric that looks for the candidate's pixel at (x - dx, y - dy)
calculateDifferenceFlipped(refImg, img, dx, dy) ==
  LET acc == DiffScan(refImg, img, 0 - dx, 0 - dy, refImg.w * refImg.h)
  IN  IF acc.count = 0 THEN MaxFloat64 ELSE FDiv(acc.totalDiff, acc.count)

\* totalDiff / float64(count), or math.MaxFloat64 when nothing was compared
calculateDifference(refImg, img, dx, dy) ==
  LET acc == DiffScan(refImg, img, dx, dy, refImg.w * refImg.h)
  IN  IF acc.count = 0 THEN MaxFloat64 ELSE FDiv(acc.totalDiff, acc.count)

RECURSIVE SSDScan(_, _, _, _, _)
\* computeSSD's ssd after the first i reference pixels of its scan; the
\* candidate coordinate is tested against the reference's bounds
SSDScan(refImg, img, xShift, yShift, i) ==
  IF i = 0 THEN FZero
  ELSE LET ssd == SSDScan(refImg, img, xShift, yShift, i - 1)
           x == (i - 1) % refImg.w
           y == (i - 1) \div refImg.w
           imgX == x + xShift
           imgY == y + yShift
       IN  IF SSDSkips(refImg, img, imgX, imgY) THEN ssd
           ELSE FAdd(ssd, PixelDiff(Samples(refImg, x, y),
                                    SamplesOrZero(img, imgX, imgY)))

computeSSD(refImg, img, xShift, yShift) ==
  SSDScan(refImg, img, xShift, yShift, refImg.w * refImg.h)

(***************************************************************************)
(* Warp.                                                                   *)
(***************************************************************************)
\* a warp that reads the source pixel at (x + dx, y + dy)
shiftImageAdding(img, dx, dy) ==
  [w |-> img.w, h |-> img.h,
   pix |-> [c \in Coords(img.w, img.h) |->
              IF ~InBounds(img, c[1] + dx, c[2] + dy) THEN Black
              ELSE At(img, c[1] + dx, c[2] + dy)]]

shiftImage(img, dx, dy) ==
  [w |-> img.w, h |-> img.h,
   pix |-> [c \in Coords(img.w, img.h) |->
              LET srcX == c[1] - dx
                  srcY == c[2] - dy
              IN  IF ~InBounds(img, srcX, srcY) THEN Black
                  ELSE At(img, srcX, srcY)]]

(***************************************************************************)
(* Candidate offsets.  Both estimators scan yShift from -maxShift to       *)
(* maxShift and, inside, xShift likewise; candidate k (from 0) is the k-th *)
(* of that scan.                                                           *)
(***************************************************************************)
Side == 2 * maxShift + 1

NumOffsets == Side * Side

XShift(k) == (k % Side) - maxShift

YShift(k) == (k \div Side) - maxShift

\* a fold that keeps the value it saw last, whatever it held
MinStepLast(st, x, y, d) == [minDiff |-> d, dx |-> x, dy |-> y]

\* the update in the body of both min-folds: strict <, so an equal value
\* never replaces the one held
MinStep(st, x, y, d) ==
  IF FLess(d, st.minDiff)
  THEN [minDiff |-> d, dx |-> x, dy |-> y]
  ELSE st

MinInit == [minDiff |-> MaxFloat64, dx |-> 0, dy |-> 0]

RECURSIVE EstScan(_, _, _)
\* estimateTranslation's minSSD, bestDx, bestDy after its first k candidates
EstScan(refImg, img, k) ==
  IF k = 0 THEN MinInit
  ELSE MinStep(EstScan(refImg, img, k - 1), XShift(k - 1), YShift(k - 1),
               computeSSD(refImg, img, XShift(k - 1), YShift(k - 1)))

estimateTranslation(refImg, img) ==
  LET st == EstScan(refImg, img, NumOffsets) IN <<st.dx, st.dy>>


(***************************************************************************)
(* Inputs.                                                                 *)
(***************************************************************************)
\* the colours of the modelled input rasters: black, a gray and a colour
\* that is above the gray in two channels and below it in one
Palette == {Black, <<1, 1, 1>>, <<2, 0, 2>>}

Rasters(w, h) == [w : {w}, h : {h}, pix : [Coords(w, h) -> Palette]]


(***************************************************************************)
(* State.                                                                  *)
(***************************************************************************)
VARIABLES
  \* findOverlap / estimateTranslation
  ref,          \* refImg
  cand,         \* img
  estimator,    \* "findOverlap" or "estimateTranslation"
  pc,           \* where the calling goroutine stands
  pending,      \* candidates whose goroutine runs and has not sent yet
  resultsChan,  \* the buffered channel's queue
  closed,       \* resultsChan is closed
  closer,       \* the goroutine that waits and closes
  wgOverlap,    \* findOverlap's WaitGroup counter
  best,         \* minDiff / minSSD with dx, dy
  scanK,        \* estimateTranslation's position in its scan
  ssd,          \* estimateTranslation's ssd, the last computeSSD result
  sends,        \* per candidate: how many results its goroutine has sent
  recvs,        \* per candidate: how many of its results the caller received
  \* findAndAlignImages / alignImages
  images,        \* the input frames, indexed from 0
  aligner,       \* "findAndAlignImages" or "alignImages"
  alignedImages, \* the result slice, indexed from 0
  alignPc,       \* where the calling goroutine stands
  loopI,         \* the caller's loop index i
  gpc,           \* per frame i > 0: where its goroutine stands
  shift,         \* per frame i > 0: the dx, dy its estimator returned
  wgAlign,       \* findAndAlignImages' WaitGroup counter
  slotWrites,    \* per slot: how many times it has been assigned
  \* performSuperResolution, from the launch of the fusion workers on
  revision,      \* "buffered" (taskChan, close before Wait), "unbuffered"
                 \* (pixelChan of the earlier revision, Wait before close)
                 \* or "sequential" (the revision without goroutines)
  upscaled,      \* the frames after draw.BiLinear.Scale, indexed from 0; in
                 \* the sequential revision, the decoded images themselves
  mainPc,        \* where the calling goroutine stands
  sendI,         \* the index of the next frame to send
  taskChan,      \* the channel's queue, of frame indices
  taskClosed,    \* the channel is closed
  wg,            \* the WaitGroup counter
  wpc,           \* per worker: where it stands
  wimg,          \* per worker: the frame it accumulates
  wcell,         \* per worker: the cell (y * width + x) it is at
  wfield,        \* per worker: 1 accR, 2 accG, 3 accB, 4 weights
  wtmp,          \* per worker: the value it read and has not written back
  accR, accG, accB, weights,   \* the accumulation buffers, per cell
  highResImg,    \* the output raster
  prevResult,    \* the output of the previous call on the same frames
  fusions,       \* per frame: how many times a worker has run its
                 \* accumulation loops over it to the end
  \* performSuperResolution's parameter
  upscaleFactor,
  \* uploadHandler
  files,         \* the uploaded files, in the order of the form
  disk,          \* the temporary directory: per file name, the file saved last
  imagePaths,    \* the saved paths, in order
  decoded,       \* the handler's images: per decoded path, the file it held
  handlerPc,     \* where the handler stands
  response,      \* what the handler has written to the client
  maxScale,      \* the factor performSuperResolution was called with
  \* concurrent invocations of performSuperResolution
  objects,       \* the heap: per address, the buffers, channel and WaitGroup
                 \* that one invocation made
  calls,         \* per invocation: its frames, its locals and its workers
  \* performSuperResolution, the rasters as objects
  store,         \* the heap: per address, the raster held there
  refs           \* the invocation's image values, each the address of a
                 \* raster: images, alignedImages, the scaled frames, the
                 \* output; and where the invocation stands

ovVars ==
  <<ref, cand, estimator, pc, pending, resultsChan, closed, closer,
    wgOverlap, best, scanK, ssd, sends, recvs>>

alVars ==
  <<images, aligner, alignedImages, alignPc, loopI, gpc, shift, wgAlign,
    slotWrites>>

fuVars ==
  <<revision, upscaled, mainPc, sendI, taskChan, taskClosed, wg, wpc, wimg,
    wcell, wfield, wtmp, accR, accG, accB, weights, highResImg, prevResult,
    fusions>>

sqVars == <<upscaleFactor>>

hdVars == <<files, disk, imagePaths, decoded, handlerPc, response, maxScale>>

ccVars == <<objects, calls>>

rsVars == <<store, refs>>

vars == <<ovVars, alVars, fuVars, sqVars, hdVars, ccVars, rsVars>>

\* the value of a variable of a stage that does not run
Nil == "nil"

\* a nil image.Image
NoImage == [w |-> 0, h |-> 0, pix |-> [c \in {} |-> Black]]

\* dx, dy not assigned yet
NoShift == <<>>

\* the variables of a stage that does not run
OverlapIdle ==
  /\ ref = Nil /\ cand = Nil /\ estimator = Nil /\ pc = Nil
  /\ pending = {} /\ resultsChan = <<>> /\ closed = FALSE /\ closer = Nil
  /\ wgOverlap = 0 /\ best = Nil /\ scanK = 0 /\ ssd = Nil
  /\ sends = Nil /\ recvs = Nil

AlignIdle ==
  /\ images = Nil /\ aligner = Nil /\ alignedImages = Nil /\ alignPc = Nil
  /\ loopI = 0 /\ gpc = Nil /\ shift = Nil /\ wgAlign = 0 /\ slotWrites = Nil

FusionIdle ==
  /\ revision = Nil /\ upscaled = Nil /\ mainPc = Nil /\ sendI = 0
  /\ taskChan = <<>> /\ taskClosed = FALSE /\ wg = 0 /\ wpc = Nil
  /\ wimg = Nil /\ wcell = Nil /\ wfield = Nil /\ wtmp = Nil
  /\ accR = Nil /\ accG = Nil /\ accB = Nil /\ weights = Nil
  /\ highResImg = Nil /\ prevResult = Nil /\ fusions = Nil

FactorIdle == upscaleFactor = 0

CallsIdle == objects = Nil /\ calls = Nil

RastersIdle == store = Nil /\ refs = Nil

HandlerIdle ==
  /\ files = <<>> /\ disk = Nil /\ imagePaths = <<>> /\ decoded = <<>>
  /\ handlerPc = Nil /\ response = Nil /\ maxScale = 0

(***************************************************************************)
(* findOverlap.                                                            *)
(***************************************************************************)
\* a raster and its copy shifted by (1, 0): the offsets (-1, 0) and (1, 0)
\* both compare equal pixels, the offsets with yShift # 0 overlap nothing
OverlapInputs ==
  LET R == [w |-> 2, h |-> 1,
            pix |-> [p \in Coords(2, 1) |-> IF p[1] = 0 THEN <<1, 1, 1>> ELSE Black]]
  IN  {<<R, shiftImage(R, 1, 0)>>}

\* a reference and a candidate of different sizes, the candidate the smaller
\* and the larger
MixedSizePairs ==
  LET Wide == [w |-> 2, h |-> 1, pix |-> [p \in Coords(2, 1) |-> <<1, 1, 1>>]]
      Dot == [w |-> 1, h |-> 1, pix |-> [p \in Coords(1, 1) |-> <<1, 1, 1>>]]
  IN  {<<Wide, Dot>>, <<Dot, Wide>>}

\* estimateTranslation is one sequential loop: it is run on every pair of
\* one-row and of one-column rasters over the Palette
EstimateInputs ==
  (Rasters(2, 1) \X Rasters(2, 1)) \cup (Rasters(1, 2) \X Rasters(1, 2))
    \cup MixedSizePairs

InitOverlap ==
  /\ \/ /\ estimator = "findOverlap"
        /\ \E in \in OverlapInputs : ref = in[1] /\ cand = in[2]
     \/ /\ estimator = "estimateTranslation"
        /\ \E in \in EstimateInputs : ref = in[1] /\ cand = in[2]
  /\ pc = "start"
  /\ pending = {}
  /\ resultsChan = <<>>
  /\ closed = FALSE
  /\ closer = "none"
  /\ wgOverlap = 0
  /\ best = MinInit
  /\ scanK = 0
  /\ ssd = FZero
  /\ sends = [k \in 0 .. NumOffsets - 1 |-> 0]
  /\ recvs = [k \in 0 .. NumOffsets - 1 |-> 0]
  /\ AlignIdle
  /\ FusionIdle
  /\ FactorIdle
  /\ HandlerIdle
  /\ CallsIdle
  /\ RastersIdle

\* the two nested loops start one goroutine per candidate (wg.Add(1) before
\* each), then the closer goroutine is started; the caller goes on to range
\* over resultsChan
OverlapSpawn ==
  /\ estimator = "findOverlap" /\ pc = "start"
  /\ pending' = 0 .. NumOffsets - 1
  /\ wgOverlap' = wgOverlap + NumOffsets
  /\ closer' = "wait"
  /\ pc' = "range"
  /\ UNCHANGED <<ref, cand, estimator, resultsChan, closed, best, scanK, ssd,
                 sends, recvs>>
  /\ UNCHANGED <<alVars, fuVars, sqVars, hdVars, ccVars, rsVars>>

\* one candidate's goroutine: calculateDifference, the send (which waits
\* while the channel is full), the deferred wg.Done
OverlapEval(k) ==
  /\ k \in pending
  /\ Len(resultsChan) < NumOffsets
  /\ resultsChan' =
       Append(resultsChan,
              [xShift |-> XShift(k), yShift |-> YShift(k),
               diff |-> calculateDifference(ref, cand, XShift(k), YShift(k))])
  /\ pending' = pending \ {k}
  /\ sends' = [sends EXCEPT ![k] = @ + 1]
  /\ wgOverlap' = wgOverlap - 1
  /\ UNCHANGED <<ref, cand, estimator, pc, closed, closer, best, scanK, ssd,
                 recvs>>
  /\ UNCHANGED <<alVars, fuVars, sqVars, hdVars, ccVars, rsVars>>

\* a closer that closes without wg.Wait()
OverlapCloseNoWait ==
  /\ closer = "wait"
  /\ closed' = TRUE
  /\ closer' = "done"
  /\ UNCHANGED <<ref, cand, estimator, pc, pending, resultsChan, wgOverlap,
                 best, scanK, ssd, sends, recvs>>
  /\ UNCHANGED <<alVars, fuVars, sqVars, hdVars, ccVars, rsVars>>

\* go func() { wg.Wait(); close(resultsChan) }()
OverlapClose ==
  /\ closer = "wait" /\ wgOverlap = 0
  /\ closed' = TRUE
  /\ closer' = "done"
  /\ UNCHANGED <<ref, cand, estimator, pc, pending, resultsChan, wgOverlap,
                 best, scanK, ssd, sends, recvs>>
  /\ UNCHANGED <<alVars, fuVars, sqVars, hdVars, ccVars, rsVars>>

\* one iteration of for res := range resultsChan
OverlapRecv ==
  /\ pc = "range" /\ resultsChan # <<>>
  /\ LET res == Head(resultsChan)
         k == CHOOSE j \in 0 .. NumOffsets - 1 :
                 XShift(j) = res.xShift /\ YShift(j) = res.yShift
     IN  /\ best' = MinStep(best, res.xShift, res.yShift, res.diff)
         /\ recvs' = [recvs EXCEPT ![k] = @ + 1]
  /\ resultsChan' = Tail(resultsChan)
  /\ UNCHANGED <<ref, cand, estimator, pc, pending, closed, closer,
                 wgOverlap, scanK, ssd, sends>>
  /\ UNCHANGED <<alVars, fuVars, sqVars, hdVars, ccVars, rsVars>>

\* the range ends on the closed, drained channel; findOverlap returns dx, dy
OverlapReturn ==
  /\ pc = "range" /\ resultsChan = <<>> /\ closed
  /\ pc' = "ret"
  /\ UNCHANGED <<ref, cand, estimator, pending, resultsChan, closed, closer,
                 wgOverlap, best, scanK, ssd, sends, recvs>>
  /\ UNCHANGED <<alVars, fuVars, sqVars, hdVars, ccVars, rsVars>>

\* one iteration of estimateTranslation's nested loops, and its return
EstimateStep ==
  /\ estimator = "estimateTranslation" /\ pc \in {"start", "scan"}
  /\ IF scanK < NumOffsets
     THEN /\ ssd' = computeSSD(ref, cand, XShift(scanK), YShift(scanK))
          /\ best' = MinStep(best, XShift(scanK), YShift(scanK), ssd')
          /\ scanK' = scanK + 1
          /\ pc' = "scan"
     ELSE /\ pc' = "ret"
          /\ UNCHANGED <<best, scanK, ssd>>
  /\ UNCHANGED <<ref, cand, estimator, pending, resultsChan, closed, closer,
                 wgOverlap, sends, recvs>>
  /\ UNCHANGED <<alVars, fuVars, sqVars, hdVars, ccVars, rsVars>>

NextOverlap ==
  \/ OverlapSpawn
  \/ \E k \in 0 .. NumOffsets - 1 : OverlapEval(k)
  \/ OverlapClose
  \/ OverlapRecv
  \/ OverlapReturn
  \/ EstimateStep

SpecOverlap == InitOverlap /\ [][NextOverlap]_vars

\* the scheduler runs a goroutine that can take a step
SpecOverlapLive == SpecOverlap /\ WF_vars(NextOverlap)


(***************************************************************************)
(* findAndAlignImages and alignImages.                                     *)
(***************************************************************************)
\* largest number of input frames
MaxFrames == 3

\* what a call of findOverlap may return: the caller folds the results in
\* the order they were sent, and keeps the first whose diff is below every
\* earlier one, so any candidate of minimal diff can be the one returned;
\* (0, 0) is returned when no diff is below math.MaxFloat64
findOverlapResults(refImg, img) ==
  LET diff(k) == calculateDifference(refImg, img, XShift(k), YShift(k))
      K == 0 .. NumOffsets - 1
      below == {k \in K : FLess(diff(k), MaxFloat64)}
  IN  IF below = {} THEN {<<0, 0>>}
      ELSE {<<XShift(k), YShift(k)>> :
              k \in {m \in below : \A j \in K : FLeq(diff(m), diff(j))}}

\* the offsets the running aligner's estimator may return for frame i
EstimatorResults(i) ==
  IF aligner = "findAndAlignImages"
  THEN findOverlapResults(images[0], images[i])
  ELSE {estimateTranslation(images[0], images[i])}

FrameSets(w, h) ==
  UNION {[0 .. n - 1 -> Rasters(w, h)] : n \in 1 .. MaxFrames}

\* a 4 x 4 raster of one gray, and the frame set of it and its copy shifted
\* by (1, 0)
Gray == <<128, 128, 128>>

GraySquare == [w |-> 4, h |-> 4, pix |-> [c \in Coords(4, 4) |-> Gray]]

GrayScenario ==
  [i \in 0 .. 1 |-> IF i = 0 THEN GraySquare ELSE shiftImage(GraySquare, 1, 0)]

\* a 3 x 1 raster without a black pixel whose ends differ, and the frame set
\* of it and its copy shifted by (1, 0)
ThreeWide ==
  [w |-> 3, h |-> 1,
   pix |-> [c \in Coords(3, 1) |-> IF c[1] = 0 THEN <<1, 1, 1>> ELSE <<2, 0, 2>>]]

ShiftedPair ==
  [i \in 0 .. 1 |-> IF i = 0 THEN ThreeWide ELSE shiftImage(ThreeWide, 1, 0)]

AlignInputs ==
  FrameSets(2, 1) \cup FrameSets(1, 2) \cup {GrayScenario, ShiftedPair}

NumImages == Cardinality(DOMAIN images)

InitAlign ==
  /\ images \in AlignInputs
  /\ aligner \in {"findAndAlignImages", "alignImages"}
  /\ alignedImages = <<>>
  /\ alignPc = "start"
  /\ loopI = 0
  /\ gpc = [i \in DOMAIN images \ {0} |-> "none"]
  /\ shift = [i \in DOMAIN images \ {0} |-> NoShift]
  /\ wgAlign = 0
  /\ slotWrites = [i \in DOMAIN images |-> 0]
  /\ OverlapIdle
  /\ FusionIdle
  /\ FactorIdle
  /\ HandlerIdle
  /\ CallsIdle
  /\ RastersIdle

\* findAndAlignImages: make([]image.Image, len(images)), slot 0 is assigned
\* the reference; alignImages: the slice starts as {reference}
AlignStart ==
  /\ alignPc = "start"
  /\ alignedImages' =
       IF aligner = "findAndAlignImages"
       THEN [i \in DOMAIN images |-> IF i = 0 THEN images[0] ELSE NoImage]
       ELSE [i \in {0} |-> images[0]]
  /\ slotWrites' = [slotWrites EXCEPT ![0] = @ + 1]
  /\ loopI' = 1
  /\ alignPc' = "loop"
  /\ UNCHANGED <<images, aligner, gpc, shift, wgAlign>>
  /\ UNCHANGED <<ovVars, fuVars, sqVars, hdVars, ccVars, rsVars>>

\* findAndAlignImages, one iteration of the launching loop: wg.Add(1) and
\* go func(i); after the last one the caller stands at wg.Wait()
AlignSpawn ==
  /\ aligner = "findAndAlignImages" /\ alignPc = "loop"
  /\ IF loopI < NumImages
     THEN /\ wgAlign' = wgAlign + 1
          /\ gpc' = [gpc EXCEPT ![loopI] = "estimate"]
          /\ loopI' = loopI + 1
          /\ UNCHANGED alignPc
     ELSE /\ alignPc' = "wait"
          /\ UNCHANGED <<wgAlign, gpc, loopI>>
  /\ UNCHANGED <<images, aligner, alignedImages, shift, slotWrites>>
  /\ UNCHANGED <<ovVars, fuVars, sqVars, hdVars, ccVars, rsVars>>

\* goroutine i: dx, dy := findOverlap(reference, img)
AlignEstimate(i) ==
  /\ gpc[i] = "estimate"
  /\ \E o \in findOverlapResults(images[0], images[i]) :
        shift' = [shift EXCEPT ![i] = o]
  /\ gpc' = [gpc EXCEPT ![i] = "shift"]
  /\ UNCHANGED <<images, aligner, alignedImages, alignPc, loopI, wgAlign,
                 slotWrites>>
  /\ UNCHANGED <<ovVars, fuVars, sqVars, hdVars, ccVars, rsVars>>

\* goroutine i: alignedImages[i] = shiftImage(img, dx, dy), then the
\* deferred wg.Done()
AlignShift(i) ==
  /\ gpc[i] = "shift"
  /\ alignedImages' =
       [alignedImages EXCEPT ![i] = shiftImage(images[i], shift[i][1], shift[i][2])]
  /\ slotWrites' = [slotWrites EXCEPT ![i] = @ + 1]
  /\ wgAlign' = wgAlign - 1
  /\ gpc' = [gpc EXCEPT ![i] = "done"]
  /\ UNCHANGED <<images, aligner, alignPc, loopI, shift>>
  /\ UNCHANGED <<ovVars, fuVars, sqVars, hdVars, ccVars, rsVars>>

\* a return that does not wait for the goroutines
AlignWaitNoBarrier ==
  /\ alignPc = "wait"
  /\ alignPc' = "ret"
  /\ UNCHANGED <<images, aligner, alignedImages, loopI, gpc, shift, wgAlign,
                 slotWrites>>
  /\ UNCHANGED <<ovVars, fuVars, sqVars, hdVars, ccVars, rsVars>>

\* wg.Wait() returns and findAndAlignImages returns alignedImages
AlignWait ==
  /\ alignPc = "wait" /\ wgAlign = 0
  /\ alignPc' = "ret"
  /\ UNCHANGED <<images, aligner, alignedImages, loopI, gpc, shift, wgAlign,
                 slotWrites>>
  /\ UNCHANGED <<ovVars, fuVars, sqVars, hdVars, ccVars, rsVars>>

\* alignImages, one iteration of its loop: estimateTranslation, shiftImage,
\* append; after the last one it returns alignedImages
AlignSeqStep ==
  /\ aligner = "alignImages" /\ alignPc = "loop"
  /\ IF loopI < NumImages
     THEN LET o == estimateTranslation(images[0], images[loopI])
          IN  /\ shift' = [shift EXCEPT ![loopI] = o]
              /\ alignedImages' =
                   [i \in 0 .. Cardinality(DOMAIN alignedImages) |->
                      IF i \in DOMAIN alignedImages THEN alignedImages[i]
                      ELSE shiftImage(images[loopI], o[1], o[2])]
              /\ slotWrites' =
                   [slotWrites EXCEPT ![Cardinality(DOMAIN alignedImages)] = @ + 1]
              /\ loopI' = loopI + 1
              /\ UNCHANGED alignPc
     ELSE /\ alignPc' = "ret"
          /\ UNCHANGED <<alignedImages, loopI, shift, slotWrites>>
  /\ UNCHANGED <<images, aligner, gpc, wgAlign>>
  /\ UNCHANGED <<ovVars, fuVars, sqVars, hdVars, ccVars, rsVars>>

NextAlign ==
  \/ AlignStart
  \/ AlignSpawn
  \/ \E i \in 1 .. MaxFrames - 1 : i \in DOMAIN gpc /\ AlignEstimate(i)
  \/ \E i \in 1 .. MaxFrames - 1 : i \in DOMAIN gpc /\ AlignShift(i)
  \/ AlignWait
  \/ AlignSeqStep

SpecAlign == InitAlign /\ [][NextAlign]_vars

(***************************************************************************)
(* performSuperResolution: fusion and normalization.                       *)
(*                                                                         *)
(* The workers update the shared buffers with plain += and ++, which read  *)
(* the cell and write it back with nothing in between to keep another      *)
(* worker out: each update is a read step and a write step.                *)
(***************************************************************************)
\* number of fusion workers (the program: runtime.NumCPU(), or 4 in the
\* earlier revision)
NumWorkers == 2

\* largest number of frames fused
MaxFused == 2

Workers == 1 .. NumWorkers

\* two upscaled frames of two cells, each bright in a different cell
TwoCellFrames ==
  [i \in 0 .. 1 |->
     [w |-> 2, h |-> 1,
      pix |-> [p \in Coords(2, 1) |-> IF p[1] = i THEN <<1, 1, 1>> ELSE Black]]]

\* two upscaled frames of one saturated cell
BrightFrames ==
  [i \in 0 .. 1 |->
     [w |-> 1, h |-> 1, pix |-> [p \in Coords(1, 1) |-> <<255, 255, 255>>]]]

\* every sequence of up to MaxFused one-cell frames over the Palette
OneCellInputs == UNION {[0 .. n - 1 -> Rasters(1, 1)] : n \in 1 .. MaxFused}

\* the upscaled frames handed to the workers
FusionInputs == OneCellInputs \cup {TwoCellFrames, BrightFrames}

\* largest upscale factor of the sequential revision
MaxFactor == 2

NumUpscaled == Cardinality(DOMAIN upscaled)

\* srcBounds.Dx() * upscaleFactor; the frames of the concurrent revisions
\* are fused at factor 1, where Scale leaves the frame's size as it is
highResWidth == upscaled[0].w * upscaleFactor

highResHeight == upscaled[0].h * upscaleFactor

Cells == Coords(highResWidth, highResHeight)

\* the cell the nested loops (y outer, x inner) visit at position c
CellAt(c) == <<c % highResWidth, c \div highResWidth>>

ZeroBuffer == [c \in Cells |-> 0]

\* the state at the start of a call, the workers launched and waiting
FusionStart ==
  /\ mainPc = "send"
  /\ sendI = 0
  /\ taskChan = <<>>
  /\ taskClosed = FALSE
  /\ wg = 0
  /\ wpc = [w \in Workers |-> "recv"]
  /\ wimg = [w \in Workers |-> 0]
  /\ wcell = [w \in Workers |-> 0]
  /\ wfield = [w \in Workers |-> 1]
  /\ wtmp = [w \in Workers |-> 0]
  /\ accR = ZeroBuffer /\ accG = ZeroBuffer /\ accB = ZeroBuffer
  /\ weights = ZeroBuffer
  /\ highResImg = NoImage
  /\ fusions = [i \in DOMAIN upscaled |-> 0]

InitFusion ==
  /\ \/ /\ revision \in {"buffered", "unbuffered"}
        /\ upscaled \in FusionInputs
        /\ upscaleFactor = 1
     \/ /\ revision = "sequential"
        /\ upscaled \in OneCellInputs \cup {TwoCellFrames}
        /\ upscaleFactor \in 1 .. MaxFactor
  /\ FusionStart
  /\ prevResult = NoImage
  /\ OverlapIdle
  /\ AlignIdle
  /\ HandlerIdle
  /\ CallsIdle
  /\ RastersIdle

\* an accumulation that adds source pixel (X / U, Y / U) to every cell (X, Y)
SeqAccumulateSpread ==
  /\ revision = "sequential" /\ mainPc = "send" /\ sendI < NumUpscaled
  /\ LET img == upscaled[sendI]
         Src(c) == <<c[1] \div upscaleFactor, c[2] \div upscaleFactor>>
         Add(buf, ch) ==
           [c \in Cells |-> buf[c] + SamplesOrZero(img, Src(c)[1], Src(c)[2])[ch]]
     IN  /\ accR' = Add(accR, 1)
         /\ accG' = Add(accG, 2)
         /\ accB' = Add(accB, 3)
         /\ weights' = [c \in Cells |-> weights[c] + 1]
  /\ sendI' = sendI + 1
  /\ mainPc' = IF sendI + 1 = NumUpscaled THEN "normalize" ELSE "send"
  /\ UNCHANGED <<revision, upscaled, taskChan, taskClosed, wg, wpc, wimg, wcell,
                 wfield, wtmp, highResImg, prevResult, fusions>>
  /\ UNCHANGED <<ovVars, alVars, sqVars, hdVars, ccVars, rsVars>>

\* sequential revision, one iteration of the loop over the images: every
\* source pixel (x, y) is added to the cell (x * upscaleFactor,
\* y * upscaleFactor); after the last image the normalization starts
SeqAccumulate ==
  /\ revision = "sequential" /\ mainPc = "send" /\ sendI < NumUpscaled
  /\ LET img == upscaled[sendI]
         Src(c) == <<c[1] \div upscaleFactor, c[2] \div upscaleFactor>>
         Hit(c) == c[1] % upscaleFactor = 0 /\ c[2] % upscaleFactor = 0
         Add(buf, ch) ==
           [c \in Cells |->
              IF Hit(c)
              THEN buf[c] + SamplesOrZero(img, Src(c)[1], Src(c)[2])[ch]
              ELSE buf[c]]
     IN  /\ accR' = Add(accR, 1)
         /\ accG' = Add(accG, 2)
         /\ accB' = Add(accB, 3)
         /\ weights' = [c \in Cells |-> IF Hit(c) THEN weights[c] + 1 ELSE weights[c]]
  /\ sendI' = sendI + 1
  /\ mainPc' = IF sendI + 1 = NumUpscaled THEN "normalize" ELSE "send"
  /\ UNCHANGED <<revision, upscaled, taskChan, taskClosed, wg, wpc, wimg, wcell,
                 wfield, wtmp, highResImg, prevResult, fusions>>
  /\ UNCHANGED <<ovVars, alVars, sqVars, hdVars, ccVars, rsVars>>

\* buffered revision, one iteration of the sending loop: wg.Add(1), Scale,
\* taskChan <- highResImgTmp (the channel has room for every frame)
MainSend ==
  /\ revision = "buffered" /\ mainPc = "send" /\ sendI < NumUpscaled
  /\ Len(taskChan) < NumUpscaled
  /\ wg' = wg + 1
  /\ taskChan' = Append(taskChan, sendI)
  /\ sendI' = sendI + 1
  /\ UNCHANGED <<revision, upscaled, mainPc, taskClosed, wpc, wimg, wcell,
                 wfield, wtmp, accR, accG, accB, weights, highResImg,
                 prevResult, fusions>>
  /\ UNCHANGED <<ovVars, alVars, sqVars, hdVars, ccVars, rsVars>>

\* unbuffered revision, one iteration of the sending loop: Scale, wg.Add(1),
\* pixelChan <- task, which completes when worker w receives it
MainHandOver(w) ==
  /\ revision = "unbuffered" /\ mainPc = "send" /\ sendI < NumUpscaled
  /\ wpc[w] = "recv"
  /\ wg' = wg + 1
  /\ sendI' = sendI + 1
  /\ wimg' = [wimg EXCEPT ![w] = sendI]
  /\ wcell' = [wcell EXCEPT ![w] = 0]
  /\ wfield' = [wfield EXCEPT ![w] = 1]
  /\ wpc' = [wpc EXCEPT ![w] = "read"]
  /\ UNCHANGED <<revision, upscaled, mainPc, taskChan, taskClosed, wtmp,
                 accR, accG, accB, weights, highResImg, prevResult, fusions>>
  /\ UNCHANGED <<ovVars, alVars, sqVars, hdVars, ccVars, rsVars>>

\* after the loop: close(taskChan) then wg.Wait() in the buffered revision,
\* wg.Wait() then close(pixelChan) in the unbuffered one
MainClose ==
  /\ \/ revision = "buffered" /\ mainPc = "send" /\ sendI = NumUpscaled
     \/ revision = "unbuffered" /\ mainPc = "close"
  /\ taskClosed' = TRUE
  /\ mainPc' = IF revision = "buffered" THEN "wait" ELSE "normalize"
  /\ UNCHANGED <<revision, upscaled, sendI, taskChan, wg, wpc, wimg, wcell,
                 wfield, wtmp, accR, accG, accB, weights, highResImg,
                 prevResult, fusions>>
  /\ UNCHANGED <<ovVars, alVars, sqVars, hdVars, ccVars, rsVars>>

\* a Wait that returns whatever the counter
MainWaitNoBarrier ==
  /\ \/ revision = "buffered" /\ mainPc = "wait"
     \/ revision = "unbuffered" /\ mainPc = "send" /\ sendI = NumUpscaled
  /\ mainPc' = IF revision = "buffered" THEN "normalize" ELSE "close"
  /\ UNCHANGED <<revision, upscaled, sendI, taskChan, taskClosed, wg, wpc,
                 wimg, wcell, wfield, wtmp, accR, accG, accB, weights,
                 highResImg, prevResult, fusions>>
  /\ UNCHANGED <<ovVars, alVars, sqVars, hdVars, ccVars, rsVars>>

\* wg.Wait() returns
MainWait ==
  /\ \/ revision = "buffered" /\ mainPc = "wait"
     \/ revision = "unbuffered" /\ mainPc = "send" /\ sendI = NumUpscaled
  /\ wg = 0
  /\ mainPc' = IF revision = "buffered" THEN "normalize" ELSE "close"
  /\ UNCHANGED <<revision, upscaled, sendI, taskChan, taskClosed, wg, wpc,
                 wimg, wcell, wfield, wtmp, accR, accG, accB, weights,
                 highResImg, prevResult, fusions>>
  /\ UNCHANGED <<ovVars, alVars, sqVars, hdVars, ccVars, rsVars>>

\* a receive that leaves the frame in the channel
WorkerRecvPeek(w) ==
  /\ wpc[w] = "recv" /\ taskChan # <<>>
  /\ wimg' = [wimg EXCEPT ![w] = Head(taskChan)]
  /\ wcell' = [wcell EXCEPT ![w] = 0]
  /\ wfield' = [wfield EXCEPT ![w] = 1]
  /\ wpc' = [wpc EXCEPT ![w] = "read"]
  /\ UNCHANGED <<revision, upscaled, mainPc, sendI, taskChan, taskClosed, wg,
                 wtmp, accR, accG, accB, weights, highResImg, prevResult,
                 fusions>>
  /\ UNCHANGED <<ovVars, alVars, sqVars, hdVars, ccVars, rsVars>>

\* a worker's range loop takes the next frame from the buffered channel
WorkerRecv(w) ==
  /\ wpc[w] = "recv" /\ taskChan # <<>>
  /\ wimg' = [wimg EXCEPT ![w] = Head(taskChan)]
  /\ taskChan' = Tail(taskChan)
  /\ wcell' = [wcell EXCEPT ![w] = 0]
  /\ wfield' = [wfield EXCEPT ![w] = 1]
  /\ wpc' = [wpc EXCEPT ![w] = "read"]
  /\ UNCHANGED <<revision, upscaled, mainPc, sendI, taskClosed, wg, wtmp,
                 accR, accG, accB, weights, highResImg, prevResult, fusions>>
  /\ UNCHANGED <<ovVars, alVars, sqVars, hdVars, ccVars, rsVars>>

\* a worker's range loop ends on the closed, drained channel
WorkerExit(w) ==
  /\ wpc[w] = "recv" /\ taskChan = <<>> /\ taskClosed
  /\ wpc' = [wpc EXCEPT ![w] = "exit"]
  /\ UNCHANGED <<revision, upscaled, mainPc, sendI, taskChan, taskClosed, wg,
                 wimg, wcell, wfield, wtmp, accR, accG, accB, weights,
                 highResImg, prevResult, fusions>>
  /\ UNCHANGED <<ovVars, alVars, sqVars, hdVars, ccVars, rsVars>>

\* the buffer a worker's field number stands for
Buffer(f) ==
  CASE f = 1 -> accR [] f = 2 -> accG [] f = 3 -> accB [] f = 4 -> weights

\* what the worker adds to the cell: float64(r >> 8), float64(g >> 8),
\* float64(b >> 8) of its frame's pixel, or 1 for weights[y][x]++
Addend(w) ==
  IF wfield[w] = 4 THEN 1
  ELSE Sample(upscaled[wimg[w]], CellAt(wcell[w])[1], CellAt(wcell[w])[2],
              wfield[w])

\* the read half of accR[y][x] += ..., ..., weights[y][x]++
WorkerRead(w) ==
  /\ wpc[w] = "read"
  /\ wtmp' = [wtmp EXCEPT ![w] = Buffer(wfield[w])[CellAt(wcell[w])]]
  /\ wpc' = [wpc EXCEPT ![w] = "write"]
  /\ UNCHANGED <<revision, upscaled, mainPc, sendI, taskChan, taskClosed, wg,
                 wimg, wcell, wfield, accR, accG, accB, weights, highResImg,
                 prevResult, fusions>>
  /\ UNCHANGED <<ovVars, alVars, sqVars, hdVars, ccVars, rsVars>>

\* the write half, and the step to the next statement, cell or the end of
\* the frame (where the worker's locals go out of scope)
WorkerWrite(w) ==
  /\ wpc[w] = "write"
  /\ LET c == CellAt(wcell[w])
         v == wtmp[w] + Addend(w)
     IN  /\ accR' = IF wfield[w] = 1 THEN [accR EXCEPT ![c] = v] ELSE accR
         /\ accG' = IF wfield[w] = 2 THEN [accG EXCEPT ![c] = v] ELSE accG
         /\ accB' = IF wfield[w] = 3 THEN [accB EXCEPT ![c] = v] ELSE accB
         /\ weights' = IF wfield[w] = 4 THEN [weights EXCEPT ![c] = v] ELSE weights
  /\ IF wfield[w] < 4
     THEN /\ wfield' = [wfield EXCEPT ![w] = @ + 1]
          /\ wpc' = [wpc EXCEPT ![w] = "read"]
          /\ UNCHANGED <<wcell, wimg, fusions>>
     ELSE IF wcell[w] + 1 < highResWidth * highResHeight
     THEN /\ wfield' = [wfield EXCEPT ![w] = 1]
          /\ wcell' = [wcell EXCEPT ![w] = @ + 1]
          /\ wpc' = [wpc EXCEPT ![w] = "read"]
          /\ UNCHANGED <<wimg, fusions>>
     ELSE /\ wpc' = [wpc EXCEPT ![w] = "done"]
          /\ wfield' = [wfield EXCEPT ![w] = 1]
          /\ wcell' = [wcell EXCEPT ![w] = 0]
          /\ wimg' = [wimg EXCEPT ![w] = 0]
          /\ fusions' = [fusions EXCEPT ![wimg[w]] = @ + 1]
  /\ wtmp' = [wtmp EXCEPT ![w] = 0]
  /\ UNCHANGED <<revision, upscaled, mainPc, sendI, taskChan, taskClosed, wg,
                 highResImg, prevResult>>
  /\ UNCHANGED <<ovVars, alVars, sqVars, hdVars, ccVars, rsVars>>

\* a worker that goes back to its range loop without wg.Done()
WorkerDoneForgotten(w) ==
  /\ wpc[w] = "done"
  /\ wpc' = [wpc EXCEPT ![w] = "recv"]
  /\ UNCHANGED <<revision, upscaled, mainPc, sendI, taskChan, taskClosed, wg,
                 wimg, wcell, wfield, wtmp, accR, accG, accB, weights,
                 highResImg, prevResult, fusions>>
  /\ UNCHANGED <<ovVars, alVars, sqVars, hdVars, ccVars, rsVars>>

\* wg.Done() after the frame's last cell; the worker ranges on
WorkerDone(w) ==
  /\ wpc[w] = "done"
  /\ wg' = wg - 1
  /\ wpc' = [wpc EXCEPT ![w] = "recv"]
  /\ UNCHANGED <<revision, upscaled, mainPc, sendI, taskChan, taskClosed,
                 wimg, wcell, wfield, wtmp, accR, accG, accB, weights,
                 highResImg, prevResult, fusions>>
  /\ UNCHANGED <<ovVars, alVars, sqVars, hdVars, ccVars, rsVars>>

\* a normalization that truncates the quotient
NormalizedFloor(sum, weight) ==
  LET r == sum \div weight
  IN  IF r < 255 THEN r ELSE 255

\* uint8(math.Min(math.Round(sum / weight), 255)); math.Round rounds half
\* away from zero
Normalized(sum, weight) ==
  LET r == (2 * sum + weight) \div (2 * weight)
  IN  IF r < 255 THEN r ELSE 255

\* the normalization loops, and the return of highResImg
Normalize ==
  /\ mainPc = "normalize"
  /\ highResImg' =
       [w |-> highResWidth, h |-> highResHeight,
        pix |-> [c \in Cells |->
                   IF weights[c] > 0
                   THEN <<Normalized(accR[c], weights[c]),
                          Normalized(accG[c], weights[c]),
                          Normalized(accB[c], weights[c])>>
                   ELSE White],
        alpha |-> [c \in Cells |-> 255]]
  /\ mainPc' = "ret"
  /\ UNCHANGED <<revision, upscaled, sendI, taskChan, taskClosed, wg, wpc,
                 wimg, wcell, wfield, wtmp, accR, accG, accB, weights,
                 prevResult, fusions>>
  /\ UNCHANGED <<ovVars, alVars, sqVars, hdVars, ccVars, rsVars>>

\* performSuperResolution is called again on the same frames: the buffers,
\* the channel, the WaitGroup and the workers are made anew
CallAgain ==
  /\ mainPc = "ret" /\ prevResult = NoImage
  /\ prevResult' = highResImg
  /\ mainPc' = "send"
  /\ sendI' = 0
  /\ taskChan' = <<>>
  /\ taskClosed' = FALSE
  /\ wg' = 0
  /\ wpc' = [w \in Workers |-> "recv"]
  /\ wimg' = [w \in Workers |-> 0]
  /\ wcell' = [w \in Workers |-> 0]
  /\ wfield' = [w \in Workers |-> 1]
  /\ wtmp' = [w \in Workers |-> 0]
  /\ accR' = ZeroBuffer /\ accG' = ZeroBuffer /\ accB' = ZeroBuffer
  /\ weights' = ZeroBuffer
  /\ highResImg' = NoImage
  /\ fusions' = [i \in DOMAIN upscaled |-> 0]
  /\ UNCHANGED <<revision, upscaled>>
  /\ UNCHANGED <<ovVars, alVars, sqVars, hdVars, ccVars, rsVars>>

NextFusion ==
  \/ SeqAccumulate
  \/ MainSend
  \/ \E w \in Workers : MainHandOver(w)
  \/ MainClose
  \/ MainWait
  \/ \E w \in Workers : WorkerRecv(w)
  \/ \E w \in Workers : WorkerExit(w)
  \/ \E w \in Workers : WorkerRead(w)
  \/ \E w \in Workers : WorkerWrite(w)
  \/ \E w \in Workers : WorkerDone(w)
  \/ Normalize
  \/ CallAgain

SpecFusion == InitFusion /\ [][NextFusion]_vars

\* The Go scheduler runs every goroutine that can take a step: the calling
\* goroutine and each worker take a step that stays possible.  A channel
\* operation is fair to the goroutine only while it stays possible (another
\* worker may take the frame first).  Whether performSuperResolution is
\* called again is up to its caller.
FairFusion ==
  /\ WF_vars(SeqAccumulate)
  /\ WF_vars(MainSend)
  /\ WF_vars(\E w \in Workers : MainHandOver(w))
  /\ WF_vars(MainClose)
  /\ WF_vars(MainWait)
  /\ WF_vars(Normalize)
  /\ \A w \in Workers :
        /\ WF_vars(WorkerRecv(w))
        /\ WF_vars(WorkerExit(w))
        /\ WF_vars(WorkerRead(w))
        /\ WF_vars(WorkerWrite(w))
        /\ WF_vars(WorkerDone(w))

\* 1 .. MaxFused upscaled frames of one saturated cell
LiveInputs ==
  {[i \in 0 .. n - 1 |-> BrightFrames[0]] : n \in 1 .. MaxFused}

InitFusionLive ==
  /\ revision \in {"buffered", "unbuffered", "sequential"}
  /\ upscaled \in LiveInputs
  /\ upscaleFactor = 1
  /\ FusionStart
  /\ prevResult = NoImage
  /\ OverlapIdle
  /\ AlignIdle
  /\ HandlerIdle
  /\ CallsIdle
  /\ RastersIdle

SpecFusionLive == InitFusionLive /\ [][NextFusion]_vars /\ FairFusion

(***************************************************************************)
(* performSuperResolution from its entry: alignment, upscale at factor 1,  *)
(* fusion, normalization.  The current revision aligns with                *)
(* findAndAlignImages and fuses through the buffered channel, the earlier  *)
(* one aligns with alignImages and fuses through the unbuffered channel.   *)
(***************************************************************************)
\* draw.BiLinear.Scale onto a W x H canvas: a source of the canvas' size
\* keeps its pixels (each canvas pixel's centre is a source pixel's centre),
\* a one-pixel source spreads its pixel over the canvas
Scale(img, W, H) ==
  IF img.w = W /\ img.h = H THEN img
  ELSE [w |-> W, h |-> H, pix |-> [c \in Coords(W, H) |-> At(img, 0, 0)]]

\* a raster of two different pixels, and a uniform one
TwoTone ==
  [w |-> 2, h |-> 1,
   pix |-> [p \in Coords(2, 1) |-> IF p[1] = 0 THEN <<1, 1, 1>> ELSE <<2, 0, 2>>]]

Uniform ==
  [w |-> 2, h |-> 1, pix |-> [p \in Coords(2, 1) |-> <<1, 1, 1>>]]

\* the frame sets reconstructed: no frame at all, a raster on its own or
\* repeated, a raster with a shifted copy, and a frame smaller than the
\* reference
ReconstructInputs ==
  {<<>>}
  \cup UNION {[0 .. n - 1 -> {R}] : R \in Rasters(1, 1) \cup {TwoTone, Uniform},
                                   n \in 1 .. MaxFused}
  \cup {[i \in 0 .. 1 |-> IF i = 0 THEN TwoTone ELSE shiftImage(TwoTone, 1, 0)]}
  \cup {[i \in 0 .. 1 |->
           IF i = 0 THEN TwoTone
           ELSE [w |-> 1, h |-> 1, pix |-> [p \in Coords(1, 1) |-> <<2, 0, 2>>]]]}

InitReconstruct ==
  /\ images \in ReconstructInputs
  /\ revision \in {"buffered", "unbuffered"}
  /\ aligner = IF revision = "buffered" THEN "findAndAlignImages" ELSE "alignImages"
  /\ upscaleFactor = 1
  /\ mainPc = "entry"
  /\ alignPc = "uncalled"
  /\ alignedImages = <<>>
  /\ loopI = 0
  /\ gpc = [i \in DOMAIN images \ {0} |-> "none"]
  /\ shift = [i \in DOMAIN images \ {0} |-> NoShift]
  /\ wgAlign = 0
  /\ slotWrites = [i \in DOMAIN images |-> 0]
  /\ upscaled = <<>>
  /\ sendI = 0 /\ taskChan = <<>> /\ taskClosed = FALSE /\ wg = 0
  /\ wpc = [w \in Workers |-> "none"]
  /\ wimg = [w \in Workers |-> 0]
  /\ wcell = [w \in Workers |-> 0]
  /\ wfield = [w \in Workers |-> 1]
  /\ wtmp = [w \in Workers |-> 0]
  /\ accR = <<>> /\ accG = <<>> /\ accB = <<>> /\ weights = <<>>
  /\ highResImg = NoImage
  /\ prevResult = NoImage
  /\ fusions = <<>>
  /\ OverlapIdle
  /\ HandlerIdle
  /\ CallsIdle
  /\ RastersIdle

\* srcBounds := images[0].Bounds(), which panics on an empty slice; then the
\* call of the aligner
Enter ==
  /\ mainPc = "entry"
  /\ IF NumImages = 0
     THEN mainPc' = "panic" /\ UNCHANGED alignPc
     ELSE mainPc' = "align" /\ alignPc' = "start"
  /\ UNCHANGED <<images, aligner, alignedImages, loopI, gpc, shift, wgAlign,
                 slotWrites>>
  /\ UNCHANGED <<revision, upscaled, sendI, taskChan, taskClosed, wg, wpc, wimg,
                 wcell, wfield, wtmp, accR, accG, accB, weights, highResImg,
                 prevResult, fusions>>
  /\ UNCHANGED <<ovVars, sqVars, hdVars, ccVars, rsVars>>

\* the aligner has returned: the buffers are made, the channel and the
\* WaitGroup are made, the workers are launched; each aligned frame's Scale
\* onto the canvas is a function of the frame, kept in upscaled
StartFusion ==
  /\ mainPc = "align" /\ alignPc = "ret"
  /\ LET W == images[0].w * upscaleFactor
         H == images[0].h * upscaleFactor
     IN  /\ upscaled' = [i \in DOMAIN alignedImages |-> Scale(alignedImages[i], W, H)]
         /\ accR' = [c \in Coords(W, H) |-> 0]
         /\ accG' = [c \in Coords(W, H) |-> 0]
         /\ accB' = [c \in Coords(W, H) |-> 0]
         /\ weights' = [c \in Coords(W, H) |-> 0]
  /\ mainPc' = "send"
  /\ wpc' = [w \in Workers |-> "recv"]
  /\ fusions' = [i \in DOMAIN alignedImages |-> 0]
  /\ UNCHANGED <<revision, sendI, taskChan, taskClosed, wg, wimg, wcell, wfield,
                 wtmp, highResImg, prevResult>>
  /\ UNCHANGED <<ovVars, alVars, sqVars, hdVars, ccVars, rsVars>>

NextReconstruct ==
  \/ Enter
  \/ AlignStart
  \/ AlignSpawn
  \/ \E i \in 1 .. MaxFrames - 1 : i \in DOMAIN gpc /\ AlignEstimate(i)
  \/ \E i \in 1 .. MaxFrames - 1 : i \in DOMAIN gpc /\ AlignShift(i)
  \/ AlignWait
  \/ AlignSeqStep
  \/ StartFusion
  \/ MainSend
  \/ \E w \in Workers : MainHandOver(w)
  \/ MainClose
  \/ MainWait
  \/ \E w \in Workers : WorkerRecv(w)
  \/ \E w \in Workers : WorkerExit(w)
  \/ \E w \in Workers : WorkerRead(w)
  \/ \E w \in Workers : WorkerWrite(w)
  \/ \E w \in Workers : WorkerDone(w)
  \/ Normalize

SpecReconstruct == InitReconstruct /\ [][NextReconstruct]_vars

(***************************************************************************)
(* uploadHandler.  An uploaded file is its name in the form and whether    *)
(* image.Decode accepts its content; every file is saved under its name    *)
(* in the request's temporary directory, then every saved path is opened   *)
(* and decoded.  Each I/O call may fail.                                   *)
(***************************************************************************)
\* largest number of uploaded files
MaxFiles == 4

FileNames == {"a.jpg", "b.jpg"}

UploadInputs ==
  UNION {[1 .. n -> [name : FileNames, ok : BOOLEAN]] : n \in 0 .. MaxFiles}

\* int(math.Sqrt(float64(n)))
IntSqrt(n) == CHOOSE k \in 0 .. n : k * k <= n /\ n < (k + 1) * (k + 1)

InitUpload ==
  /\ files \in UploadInputs
  /\ disk = [n \in FileNames |-> 0]
  /\ imagePaths = <<>>
  /\ decoded = <<>>
  /\ handlerPc = "parse"
  /\ response = "none"
  /\ maxScale = 0
  /\ OverlapIdle
  /\ AlignIdle
  /\ FusionIdle
  /\ FactorIdle
  /\ CallsIdle
  /\ RastersIdle

\* http.Error and return
HandlerFail ==
  /\ response' = "error"
  /\ handlerPc' = "done"

\* ParseMultipartForm and MkdirTemp
HandlerParse ==
  /\ handlerPc = "parse"
  /\ \/ HandlerFail
     \/ handlerPc' = "save" /\ UNCHANGED response
  /\ UNCHANGED <<files, disk, imagePaths, decoded, maxScale>>
  /\ UNCHANGED <<ovVars, alVars, fuVars, sqVars, ccVars, rsVars>>

\* one iteration of the saving loop: Open, Create (which truncates a file
\* of that name), Copy, append the path; after the last file, on to decoding
HandlerSave ==
  /\ handlerPc = "save"
  /\ IF Len(imagePaths) < Len(files)
     THEN LET k == Len(imagePaths) + 1
          IN  \/ HandlerFail /\ UNCHANGED <<disk, imagePaths>>
              \/ /\ disk' = [disk EXCEPT ![files[k].name] = k]
                 /\ imagePaths' = Append(imagePaths, files[k].name)
                 /\ UNCHANGED <<handlerPc, response>>
     ELSE /\ handlerPc' = "decode"
          /\ UNCHANGED <<disk, imagePaths, response>>
  /\ UNCHANGED <<files, decoded, maxScale>>
  /\ UNCHANGED <<ovVars, alVars, fuVars, sqVars, ccVars, rsVars>>

\* one iteration of the decoding loop: Open, image.Decode, append the image;
\* after the last path, the test for no image and the scaling factor
HandlerDecode ==
  /\ handlerPc = "decode"
  /\ IF Len(decoded) < Len(imagePaths)
     THEN LET held == disk[imagePaths[Len(decoded) + 1]]
          IN  \/ HandlerFail /\ UNCHANGED <<decoded, maxScale>>
              \/ /\ ~files[held].ok
                 /\ HandlerFail /\ UNCHANGED <<decoded, maxScale>>
              \/ /\ files[held].ok
                 /\ decoded' = Append(decoded, held)
                 /\ UNCHANGED <<handlerPc, response, maxScale>>
     ELSE IF Len(decoded) = 0
     THEN HandlerFail /\ UNCHANGED <<decoded, maxScale>>
     ELSE /\ maxScale' = IntSqrt(Len(decoded))
          /\ handlerPc' = "call"
          /\ UNCHANGED <<decoded, response>>
  /\ UNCHANGED <<files, disk, imagePaths>>
  /\ UNCHANGED <<ovVars, alVars, fuVars, sqVars, ccVars, rsVars>>

\* performSuperResolution(images, maxScale) has returned: jpeg.Encode
HandlerRespond ==
  /\ handlerPc = "call"
  /\ response' \in {"image", "error"}
  /\ handlerPc' = "done"
  /\ UNCHANGED <<files, disk, imagePaths, decoded, maxScale>>
  /\ UNCHANGED <<ovVars, alVars, fuVars, sqVars, ccVars, rsVars>>

NextUpload ==
  \/ HandlerParse
  \/ HandlerSave
  \/ HandlerDecode
  \/ HandlerRespond

SpecUpload == InitUpload /\ [][NextUpload]_vars

(***************************************************************************)
(* Concurrent invocations of performSuperResolution (one per upload        *)
(* request, each on the goroutine of its request).  The buffers, the       *)
(* channel and the WaitGroup are locals of the invocation: each invocation *)
(* makes its own and its workers close over them.  The heap is explicit:   *)
(* an invocation holds the address of what it made.  The frames are of one *)
(* cell and are fused at factor 1, so each buffer is one cell.             *)
(***************************************************************************)
\* number of concurrent invocations
NumCalls == 2

Calls == 1 .. NumCalls

\* the frames of invocation c: the first invocation fuses 1 .. MaxFused
\* frames of (1,1,1), every other one saturated frame
CallInputs(c) ==
  IF c = 1
  THEN {[i \in 0 .. n - 1 |->
           [w |-> 1, h |-> 1, pix |-> [p \in Coords(1, 1) |-> <<1, 1, 1>>]]] :
          n \in 1 .. MaxFused}
  ELSE {[i \in 0 .. 0 |-> BrightFrames[0]]}

\* what one invocation makes: zeroed buffers, an empty open channel, a
\* WaitGroup at 0
NewObjects ==
  [accR |-> 0, accG |-> 0, accB |-> 0, weights |-> 0,
   taskChan |-> <<>>, taskClosed |-> FALSE, wg |-> 0]

\* an allocator that hands out the same memory to every invocation
SharedAddress == CHOOSE a \in Calls : \A b \in Calls : a <= b

\* make and var hand out memory that is not in use
NewAddress == CHOOSE a \in Calls : a \notin DOMAIN objects

InitCalls ==
  /\ objects = <<>>
  /\ calls \in [Calls -> [imgs : UNION {CallInputs(c) : c \in Calls},
                          obj : {0}, pc : {"entry"}, sendI : {0},
                          wpc : {[w \in Workers |-> "none"]},
                          wimg : {[w \in Workers |-> 0]},
                          wfield : {[w \in Workers |-> 1]},
                          wtmp : {[w \in Workers |-> 0]},
                          out : {NoImage}]]
  /\ \A c \in Calls : calls[c].imgs \in CallInputs(c)
  /\ OverlapIdle
  /\ AlignIdle
  /\ FusionIdle
  /\ FactorIdle
  /\ HandlerIdle
  /\ RastersIdle

\* len(alignedImages) in invocation c
NumFrames(c) == Cardinality(DOMAIN calls[c].imgs)

\* the objects of invocation c
Mine(c) == objects[calls[c].obj]

\* invocation c up to the sending loop: the buffers, the channel and the
\* WaitGroup are made, the workers are launched
CallEnter(c) ==
  /\ calls[c].pc = "entry"
  /\ LET a == NewAddress
     IN  /\ objects' = [b \in DOMAIN objects \cup {a} |->
                          IF b = a THEN NewObjects ELSE objects[b]]
         /\ calls' = [calls EXCEPT ![c].obj = a, ![c].pc = "send",
                                   ![c].wpc = [w \in Workers |-> "recv"]]
  /\ UNCHANGED <<ovVars, alVars, fuVars, sqVars, hdVars, rsVars>>

\* one iteration of the sending loop: wg.Add(1), Scale, taskChan <- frame
CallSend(c) ==
  /\ calls[c].pc = "send"
  /\ calls[c].sendI < NumFrames(c)
  /\ Len(Mine(c).taskChan) < NumFrames(c)
  /\ objects' = [objects EXCEPT ![calls[c].obj].wg = @ + 1,
                                ![calls[c].obj].taskChan = Append(@, calls[c].sendI)]
  /\ calls' = [calls EXCEPT ![c].sendI = @ + 1]
  /\ UNCHANGED <<ovVars, alVars, fuVars, sqVars, hdVars, rsVars>>

\* close(taskChan)
CallClose(c) ==
  /\ calls[c].pc = "send"
  /\ calls[c].sendI = NumFrames(c)
  /\ objects' = [objects EXCEPT ![calls[c].obj].taskClosed = TRUE]
  /\ calls' = [calls EXCEPT ![c].pc = "wait"]
  /\ UNCHANGED <<ovVars, alVars, fuVars, sqVars, hdVars, rsVars>>

\* wg.Wait() returns
CallWait(c) ==
  /\ calls[c].pc = "wait"
  /\ Mine(c).wg = 0
  /\ calls' = [calls EXCEPT ![c].pc = "normalize"]
  /\ UNCHANGED objects
  /\ UNCHANGED <<ovVars, alVars, fuVars, sqVars, hdVars, rsVars>>

\* a worker of invocation c takes the next frame from the channel
CallRecv(c, w) ==
  /\ calls[c].wpc[w] = "recv"
  /\ Mine(c).taskChan # <<>>
  /\ calls' = [calls EXCEPT ![c].wimg[w] = Head(Mine(c).taskChan),
                            ![c].wfield[w] = 1,
                            ![c].wpc[w] = "read"]
  /\ objects' = [objects EXCEPT ![calls[c].obj].taskChan = Tail(@)]
  /\ UNCHANGED <<ovVars, alVars, fuVars, sqVars, hdVars, rsVars>>

\* the worker's range loop ends on the closed, drained channel
CallExit(c, w) ==
  /\ calls[c].wpc[w] = "recv"
  /\ Mine(c).taskChan = <<>> /\ Mine(c).taskClosed
  /\ calls' = [calls EXCEPT ![c].wpc[w] = "exit"]
  /\ UNCHANGED objects
  /\ UNCHANGED <<ovVars, alVars, fuVars, sqVars, hdVars, rsVars>>

\* the buffer cell a worker's field number stands for
CallBuffer(c, f) ==
  CASE f = 1 -> Mine(c).accR [] f = 2 -> Mine(c).accG
    [] f = 3 -> Mine(c).accB [] f = 4 -> Mine(c).weights

\* the read half of accR[y][x] += ..., ..., weights[y][x]++
CallRead(c, w) ==
  /\ calls[c].wpc[w] = "read"
  /\ calls' = [calls EXCEPT ![c].wtmp[w] = CallBuffer(c, calls[c].wfield[w]),
                            ![c].wpc[w] = "write"]
  /\ UNCHANGED objects
  /\ UNCHANGED <<ovVars, alVars, fuVars, sqVars, hdVars, rsVars>>

\* the write half, and the step to the next statement or to wg.Done()
CallWrite(c, w) ==
  /\ calls[c].wpc[w] = "write"
  /\ LET f == calls[c].wfield[w]
         v == calls[c].wtmp[w]
                + (IF f = 4 THEN 1
                   ELSE Sample(calls[c].imgs[calls[c].wimg[w]], 0, 0, f))
     IN  /\ objects' =
              CASE f = 1 -> [objects EXCEPT ![calls[c].obj].accR = v]
                [] f = 2 -> [objects EXCEPT ![calls[c].obj].accG = v]
                [] f = 3 -> [objects EXCEPT ![calls[c].obj].accB = v]
                [] f = 4 -> [objects EXCEPT ![calls[c].obj].weights = v]
         /\ calls' = [calls EXCEPT ![c].wtmp[w] = 0,
                                   ![c].wfield[w] = IF f < 4 THEN f + 1 ELSE 1,
                                   ![c].wimg[w] = IF f < 4 THEN @ ELSE 0,
                                   ![c].wpc[w] = IF f < 4 THEN "read" ELSE "done"]
  /\ UNCHANGED <<ovVars, alVars, fuVars, sqVars, hdVars, rsVars>>

\* wg.Done(); the worker ranges on
CallDone(c, w) ==
  /\ calls[c].wpc[w] = "done"
  /\ objects' = [objects EXCEPT ![calls[c].obj].wg = @ - 1]
  /\ calls' = [calls EXCEPT ![c].wpc[w] = "recv"]
  /\ UNCHANGED <<ovVars, alVars, fuVars, sqVars, hdVars, rsVars>>

\* the normalization loops and the return
CallNormalize(c) ==
  /\ calls[c].pc = "normalize"
  /\ calls' =
       [calls EXCEPT
          ![c].pc = "ret",
          ![c].out =
             [w |-> 1, h |-> 1,
              pix |-> [p \in Coords(1, 1) |->
                         IF Mine(c).weights > 0
                         THEN <<Normalized(Mine(c).accR, Mine(c).weights),
                                Normalized(Mine(c).accG, Mine(c).weights),
                                Normalized(Mine(c).accB, Mine(c).weights)>>
                         ELSE White],
              alpha |-> [p \in Coords(1, 1) |-> 255]]]
  /\ UNCHANGED objects
  /\ UNCHANGED <<ovVars, alVars, fuVars, sqVars, hdVars, rsVars>>

NextCalls ==
  \/ \E c \in Calls : CallEnter(c)
  \/ \E c \in Calls : CallSend(c)
  \/ \E c \in Calls : CallClose(c)
  \/ \E c \in Calls : CallWait(c)
  \/ \E c \in Calls, w \in Workers : CallRecv(c, w)
  \/ \E c \in Calls, w \in Workers : CallExit(c, w)
  \/ \E c \in Calls, w \in Workers : CallRead(c, w)
  \/ \E c \in Calls, w \in Workers : CallWrite(c, w)
  \/ \E c \in Calls, w \in Workers : CallDone(c, w)
  \/ \E c \in Calls : CallNormalize(c)

SpecCalls == InitCalls /\ [][NextCalls]_vars

(***************************************************************************)
(* performSuperResolution with the rasters as objects.  An image.Image     *)
(* value points to its pixel data: alignedImages[0] is the reference       *)
(* itself, shiftImage and the upscale write into rasters made by           *)
(* image.NewRGBA, the workers and the normalization read the scaled frames *)
(* and the buffers and write the output raster.                            *)
(***************************************************************************)
RECURSIVE SumOfFrames(_, _, _, _)
\* the sum of channel ch of pixel p over the frames S of imgs
SumOfFrames(imgs, S, p, ch) ==
  IF S = {} THEN 0
  ELSE LET i == CHOOSE j \in S : TRUE
       IN  Sample(imgs[i], p[1], p[2], ch) + SumOfFrames(imgs, S \ {i}, p, ch)

\* what the fusion of the scaled frames imgs can return: with the
\* unsynchronised updates a buffer cell ends as the sum over some of the
\* frames, the last one written among them, and the weight as some count of
\* them
AloneOutputs(imgs) ==
  LET N == Cardinality(DOMAIN imgs)
      Some == (SUBSET DOMAIN imgs) \ {{}}
      W == imgs[0].w
      H == imgs[0].h
      Channel(p, ch) ==
        {Normalized(SumOfFrames(imgs, S, p, ch), n) : S \in Some, n \in 1 .. N}
      Pixel(p) == Channel(p, 1) \X Channel(p, 2) \X Channel(p, 3)
      Pixels == UNION {Pixel(p) : p \in Coords(W, H)}
  IN  {[w |-> W, h |-> H, pix |-> f, alpha |-> [p \in Coords(W, H) |-> 255]] :
         f \in {g \in [Coords(W, H) -> Pixels] :
                  \A p \in Coords(W, H) : g[p] \in Pixel(p)}}

\* the addresses of the heap: the inputs, and a shifted frame, a scaled
\* frame and the output
Addresses == 1 .. (3 * MaxFused + 1)

\* image.NewRGBA hands out memory that is not in use
NewRaster == CHOOSE a \in Addresses : a \notin DOMAIN store

\* a shiftImage that writes the shifted pixels into its argument
ShiftInPlace(src) == src

\* shiftedImg := image.NewRGBA(bounds): where shiftImage writes
ShiftDestination(src) == NewRaster

\* the input frames: a raster on its own or repeated, a raster with a
\* shifted copy, and a frame smaller than the reference
RasterInputs == ReconstructInputs \ {<<>>}

InitRasters ==
  /\ \E in \in RasterInputs :
        LET n == Cardinality(DOMAIN in)
        IN  /\ store = [a \in 1 .. n |-> in[a - 1]]
            /\ refs = [images |-> [i \in 0 .. n - 1 |-> i + 1],
                       alignedImages |-> [i \in 0 .. n - 1 |-> 0],
                       upscaled |-> [i \in 0 .. n - 1 |-> 0],
                       highResImg |-> 0,
                       pc |-> "entry",
                       before |-> [a \in 1 .. n |-> in[a - 1]]]
  /\ OverlapIdle
  /\ AlignIdle
  /\ FusionIdle
  /\ FactorIdle
  /\ HandlerIdle
  /\ CallsIdle

\* the rasters the invocation's frames i point to
Held(frames) == [i \in DOMAIN frames |-> store[frames[i]]]

\* findAndAlignImages: alignedImages[0] = reference
RastersEnter ==
  /\ refs.pc = "entry"
  /\ refs' = [refs EXCEPT !.alignedImages[0] = refs.images[0], !.pc = "align"]
  /\ UNCHANGED store
  /\ UNCHANGED <<ovVars, alVars, fuVars, sqVars, hdVars, ccVars>>

\* the goroutine of frame i: findOverlap, then shiftImage, which sets every
\* pixel of its destination; alignedImages[i] is the destination
RastersShift(i) ==
  /\ refs.pc = "align"
  /\ i \in DOMAIN refs.images /\ i > 0 /\ refs.alignedImages[i] = 0
  /\ \E o \in findOverlapResults(store[refs.images[0]], store[refs.images[i]]) :
        LET dst == ShiftDestination(refs.images[i])
        IN  /\ store' = [a \in DOMAIN store \cup {dst} |->
                           IF a = dst
                           THEN shiftImage(store[refs.images[i]], o[1], o[2])
                           ELSE store[a]]
            /\ refs' = [refs EXCEPT !.alignedImages[i] = dst]
  /\ UNCHANGED <<ovVars, alVars, fuVars, sqVars, hdVars, ccVars>>

\* wg.Wait() returns and findAndAlignImages with it
RastersAligned ==
  /\ refs.pc = "align"
  /\ \A i \in DOMAIN refs.images : refs.alignedImages[i] # 0
  /\ refs' = [refs EXCEPT !.pc = "scale"]
  /\ UNCHANGED store
  /\ UNCHANGED <<ovVars, alVars, fuVars, sqVars, hdVars, ccVars>>

\* one iteration of the sending loop: highResImgTmp := image.NewRGBA(...),
\* draw.BiLinear.Scale from the aligned frame into it
RastersScale(i) ==
  /\ refs.pc = "scale"
  /\ i \in DOMAIN refs.images /\ refs.upscaled[i] = 0
  /\ \A j \in DOMAIN refs.images : j < i => refs.upscaled[j] # 0
  /\ LET dst == NewRaster
         W == store[refs.images[0]].w
         H == store[refs.images[0]].h
     IN  /\ store' = [a \in DOMAIN store \cup {dst} |->
                        IF a = dst
                        THEN Scale(store[refs.alignedImages[i]], W, H)
                        ELSE store[a]]
         /\ refs' = [refs EXCEPT !.upscaled[i] = dst]
  /\ UNCHANGED <<ovVars, alVars, fuVars, sqVars, hdVars, ccVars>>

\* the workers read the scaled frames into the buffers; the normalization
\* sets every pixel of highResImg := image.NewRGBA(...), which is returned
RastersFuse ==
  /\ refs.pc = "scale"
  /\ \A i \in DOMAIN refs.images : refs.upscaled[i] # 0
  /\ \E out \in AloneOutputs(Held(refs.upscaled)) :
        LET dst == NewRaster
        IN  /\ store' = [a \in DOMAIN store \cup {dst} |->
                           IF a = dst THEN out ELSE store[a]]
            /\ refs' = [refs EXCEPT !.highResImg = dst, !.pc = "ret"]
  /\ UNCHANGED <<ovVars, alVars, fuVars, sqVars, hdVars, ccVars>>

NextRasters ==
  \/ RastersEnter
  \/ \E i \in 1 .. MaxFused - 1 : RastersShift(i)
  \/ RastersAligned
  \/ \E i \in 0 .. MaxFused - 1 : RastersScale(i)
  \/ RastersFuse

SpecRasters == InitRasters /\ [][NextRasters]_vars

(***************************************************************************)
(* Properties of the fusion.                                               *)
(***************************************************************************)
\* wg.Wait() has returned
Fused ==
  /\ revision \in {"buffered", "unbuffered"}
  /\ \/ mainPc \in {"normalize", "ret"}
     \/ revision = "unbuffered" /\ mainPc = "close"

\* C1: after all N frames are fused (wg.Wait has returned), weights[y][x]
\* equals N for every canvas cell, in every interleaving of the workers'
\* read-modify-write steps.
C1_WeightsEqualFrameCount ==
  Fused => \A c \in Cells : weights[c] = NumUpscaled

RECURSIVE SampleSum(_, _, _)
\* the arithmetic sum of cell c's 8-bit sample of channel ch over the first
\* n upscaled frames
SampleSum(c, ch, n) ==
  IF n = 0 THEN 0
  ELSE SampleSum(c, ch, n - 1) + Sample(upscaled[n - 1], c[1], c[2], ch)

\* C2: when normalization starts, every cell of accR, accG and accB holds the
\* exact sum of that cell's sample over all N upscaled frames: no worker's
\* addition is lost or applied twice.
C2_SumsExact ==
  (Fused /\ mainPc = "normalize") =>
     \A c \in Cells : \A ch \in 1 .. 3 :
        Buffer(ch)[c] = SampleSum(c, ch, NumUpscaled)

\* C3: the updates of one accumulation cell are serialized: no two workers
\* are both between the read and the write-back of the same cell of the same
\* buffer.
C3_UpdatesSerialized ==
  \A w1 \in Workers : \A w2 \in Workers \ {w1} :
     ~ /\ wpc[w1] = "write" /\ wpc[w2] = "write"
       /\ wcell[w1] = wcell[w2] /\ wfield[w1] = wfield[w2]

\* C4: two executions of performSuperResolution on the same frames produce
\* identical output rasters, whatever the scheduling of the workers.
C4_Deterministic ==
  (mainPc = "ret" /\ prevResult # NoImage) => highResImg = prevResult

RECURSIVE FusedInOrder(_)
\* the buffers after the first n frames were accumulated one after another,
\* in index order
FusedInOrder(n) ==
  IF n = 0
  THEN [accR |-> ZeroBuffer, accG |-> ZeroBuffer, accB |-> ZeroBuffer,
        weights |-> ZeroBuffer]
  ELSE LET b == FusedInOrder(n - 1)
           img == upscaled[n - 1]
       IN  [accR |-> [c \in Cells |-> b.accR[c] + Sample(img, c[1], c[2], 1)],
            accG |-> [c \in Cells |-> b.accG[c] + Sample(img, c[1], c[2], 2)],
            accB |-> [c \in Cells |-> b.accB[c] + Sample(img, c[1], c[2], 3)],
            weights |-> [c \in Cells |-> b.weights[c] + 1]]

\* C14: the result does not depend on the order in which the frames are
\* fused: whatever order the workers pick up and accumulate the frames in,
\* the sums, the weights and the output pixels are those of fusing the
\* frames one after another.
C14_OrderInvariant ==
  (Fused /\ mainPc = "ret") =>
     LET b == FusedInOrder(NumUpscaled)
     IN  /\ accR = b.accR /\ accG = b.accG /\ accB = b.accB
         /\ weights = b.weights
         /\ \A c \in Cells :
               highResImg.pix[c] =
                 <<Normalized(b.accR[c], b.weights[c]),
                   Normalized(b.accG[c], b.weights[c]),
                   Normalized(b.accB[c], b.weights[c])>>

\* r is sum / weight rounded to the nearest integer, halves upwards
RoundsTo(sum, weight, r) ==
  /\ 2 * weight * r - weight <= 2 * sum
  /\ 2 * sum < 2 * weight * r + weight

\* C12: for every canvas cell, if weight > 0 the output pixel is
\* (round(sumR/weight), round(sumG/weight), round(sumB/weight)), each channel
\* clamped into [0,255]; if weight = 0 it is white (255,255,255); every
\* output pixel has alpha 255.
C12_Normalization ==
  mainPc = "ret" =>
     /\ highResImg.w = highResWidth /\ highResImg.h = highResHeight
     /\ \A c \in Cells :
           /\ highResImg.alpha[c] = 255
           /\ IF weights[c] > 0
              THEN \A ch \in 1 .. 3 :
                      /\ highResImg.pix[c][ch] \in 0 .. 255
                      /\ \E r \in 0 .. Buffer(ch)[c] + 1 :
                            /\ RoundsTo(Buffer(ch)[c], weights[c], r)
                            /\ highResImg.pix[c][ch] = IF r > 255 THEN 255 ELSE r
              ELSE highResImg.pix[c] = <<255, 255, 255>>

\* the sequential revision has returned a canvas with a cell that no frame
\* contributed to and a cell whose red quotient 3/2 was rounded to 2
C12_Witness ==
  /\ mainPc = "ret" /\ revision = "sequential"
  /\ \E c \in Cells : weights[c] = 0 /\ highResImg.pix[c] = White
  /\ \E c \in Cells :
        /\ weights[c] = 2 /\ accR[c] = 3
        /\ highResImg.pix[c][1] = 2

(***************************************************************************)
(* Properties of the estimators.                                          *)
(***************************************************************************)
Window == (-maxShift .. maxShift) \X (-maxShift .. maxShift)

\* the metric the running estimator evaluates
MetricAt(x, y) ==
  IF estimator = "findOverlap" THEN calculateDifference(ref, cand, x, y)
  ELSE computeSSD(ref, cand, x, y)

\* the reference pixels that have an in-bounds counterpart at offset (x, y)
Overlap(refImg, img, x, y) ==
  {c \in Coords(refImg.w, refImg.h) : InBounds(img, c[1] + x, c[2] + y)}

\* the candidates whose metric value is minimal over the whole window
MinCandidates ==
  {k \in 0 .. NumOffsets - 1 :
     \A j \in 0 .. NumOffsets - 1 :
        FLeq(MetricAt(XShift(k), YShift(k)), MetricAt(XShift(j), YShift(j)))}

FirstMinCandidate == CHOOSE k \in MinCandidates : \A j \in MinCandidates : k <= j

\* C5: when several candidate offsets attain the minimal metric value, the
\* estimator returns the first of them in the scan order (dy ascending, then
\* dx ascending), whatever the order in which the evaluations complete.
C5_TieBreakScanOrder ==
  pc = "ret" =>
     /\ best.dx = XShift(FirstMinCandidate)
     /\ best.dy = YShift(FirstMinCandidate)

\* C6: the returned offset lies in [-S,S] x [-S,S] and its metric value is
\* less than or equal to that of every offset of the window, in every
\* interleaving of the per-offset goroutines.
C6_ReturnsMinimum ==
  pc = "ret" =>
     /\ <<best.dx, best.dy>> \in Window
     /\ \A o \in Window : FLeq(MetricAt(best.dx, best.dy), MetricAt(o[1], o[2]))

\* findOverlap has returned an offset other than its initial (0, 0), and
\* some offset of the window has a larger metric value
C6_Witness ==
  /\ pc = "ret" /\ estimator = "findOverlap"
  /\ <<best.dx, best.dy>> # <<0, 0>>
  /\ \E o \in Window :
        /\ ~MetricAt(o[1], o[2]).max
        /\ FLess(MetricAt(best.dx, best.dy), MetricAt(o[1], o[2]))

\* the metric values computed so far, each with its offset: the results sent
\* on the channel, and estimateTranslation's last ssd
Computed ==
  {[x |-> resultsChan[i].xShift, y |-> resultsChan[i].yShift,
    value |-> resultsChan[i].diff] : i \in 1 .. Len(resultsChan)}
  \cup
  (IF estimator = "estimateTranslation" /\ scanK > 0
   THEN {[x |-> XShift(scanK - 1), y |-> YShift(scanK - 1), value |-> ssd]}
   ELSE {})

\* C8: for a candidate offset at which no reference pixel has an in-bounds
\* counterpart, the metric (calculateDifference and computeSSD alike) returns
\* the maximal-dissimilarity sentinel: a value not smaller than the metric of
\* any offset that has overlap.
C8_NoOverlapIsMaximal ==
  \A m \in Computed :
     Overlap(ref, cand, m.x, m.y) = {} =>
        \A o \in Window :
           Overlap(ref, cand, o[1], o[2]) # {} =>
              FLeq(MetricAt(o[1], o[2]), m.value)

\* (r1-r2)^2 + (g1-g2)^2 + (b1-b2)^2 with signed differences
SignedSquares(p, q) ==
  (p[1] - q[1]) * (p[1] - q[1]) + (p[2] - q[2]) * (p[2] - q[2])
    + (p[3] - q[3]) * (p[3] - q[3])

\* C9: for every compared pixel pair the contribution added to the metric is
\* exactly (r1-r2)^2 + (g1-g2)^2 + (b1-b2)^2 with signed differences, also
\* when a reference channel is smaller than the candidate's.
C9_SignedContribution ==
  \A m \in Computed :
     \A c \in Overlap(ref, cand, m.x, m.y) :
        LET p == At(ref, c[1], c[2])
            q == At(cand, c[1] + m.x, c[2] + m.y)
        IN  FEq(PixelDiff(Samples(ref, c[1], c[2]),
                          Samples(cand, c[1] + m.x, c[2] + m.y)),
                FInt(SignedSquares(p, q)))


(***************************************************************************)
(* Properties of the aligners.                                             *)
(***************************************************************************)
\* the metric of the running aligner's estimator for frame i at offset o
FrameMetric(i, o) ==
  IF aligner = "findAndAlignImages"
  THEN calculateDifference(images[0], images[i], o[1], o[2])
  ELSE computeSSD(images[0], images[i], o[1], o[2])

\* the frames whose estimator has returned
Estimated == {i \in DOMAIN shift : shift[i] # NoShift}

\* frame i is the reference shifted by o
ShiftedBy(i, o) == images[i] = shiftImage(images[0], o[1], o[2])

\* C7 as claimed: for C = shiftImage(R, dx0, dy0) the estimator run on (R, C)
\* with a search radius of at least max(|dx0|, |dy0|) returns exactly
\* (dx0, dy0).
C7_ReturnsTheShift ==
  \A i \in Estimated :
     \A o \in Window : ShiftedBy(i, o) => shift[i] = o

\* C7 as amended: when (dx0, dy0) leaves some overlap, the estimator returns
\* an offset whose metric value equals that of (dx0, dy0), which is 0; it
\* returns (dx0, dy0) itself when no other offset of the window has that
\* metric value.
C7_ReturnsAZeroOfTheMetric ==
  \A i \in Estimated :
     \A o \in Window :
        (ShiftedBy(i, o) /\ Overlap(images[0], images[i], o[1], o[2]) # {}) =>
           /\ FEq(FrameMetric(i, o), FZero)
           /\ FEq(FrameMetric(i, shift[i]), FrameMetric(i, o))
           /\ (\A o2 \in Window \ {o} : ~FEq(FrameMetric(i, o2), FrameMetric(i, o)))
                 => shift[i] = o

\* findOverlap has returned the true, non-zero shift of a frame, no other
\* offset having the metric value 0
C7_Witness ==
  /\ aligner = "findAndAlignImages"
  /\ \E i \in Estimated :
        \E o \in Window \ {<<0, 0>>} :
           /\ ShiftedBy(i, o) /\ shift[i] = o
           /\ Overlap(images[0], images[i], o[1], o[2]) # {}
           /\ \A o2 \in Window \ {o} : ~FEq(FrameMetric(i, o2), FZero)

\* C10: the aligner returns a sequence of the input's length whose element 0
\* is the reference and whose element i > 0 is shiftImage(input[i], dx_i,
\* dy_i) for the offset the estimator returned for (reference, input[i]);
\* every slot is filled, and no slot is ever assigned twice.
C10_AlignContract ==
  /\ \A i \in DOMAIN slotWrites : slotWrites[i] <= 1
  /\ alignPc = "ret" =>
        /\ DOMAIN alignedImages = DOMAIN images
        /\ alignedImages[0] = images[0]
        /\ \A i \in DOMAIN images : slotWrites[i] = 1
        /\ \A i \in DOMAIN images \ {0} :
              /\ shift[i] \in EstimatorResults(i)
              /\ alignedImages[i] = shiftImage(images[i], shift[i][1], shift[i][2])

\* findAndAlignImages has returned three frames, two of them shifted by
\* different non-zero offsets
C10_Witness ==
  /\ alignPc = "ret" /\ aligner = "findAndAlignImages"
  /\ NumImages = 3
  /\ shift[1] # <<0, 0>> /\ shift[2] # <<0, 0>> /\ shift[1] # shift[2]
  /\ alignedImages[1] # images[1] /\ alignedImages[2] # images[2]

\* the frames whose aligned slot has been assigned
Warped == {i \in DOMAIN images \ {0} : slotWrites[i] = 1}

\* C11: shiftImage(img, dx, dy) returns a raster with the bounds of img whose
\* pixel (x, y) is img(x - dx, y - dy) when that coordinate is inside the
\* bounds and opaque black otherwise; shiftImage(img, 0, 0) equals img.
C11_ShiftSemantics ==
  \A i \in Warped :
     LET img == images[i]
         out == alignedImages[i]
         dx == shift[i][1]
         dy == shift[i][2]
     IN  /\ out.w = img.w /\ out.h = img.h
         /\ DOMAIN out.pix = DOMAIN img.pix
         /\ \A x \in 0 .. img.w - 1 : \A y \in 0 .. img.h - 1 :
               out.pix[<<x, y>>] =
                 IF /\ 0 <= x - dx /\ x - dx < img.w
                    /\ 0 <= y - dy /\ y - dy < img.h
                 THEN img.pix[<<x - dx, y - dy>>]
                 ELSE <<0, 0, 0>>
         /\ (dx = 0 /\ dy = 0) => out = img

\* a frame has been warped by a non-zero offset: one of its pixels is
\* padding, another is a copied pixel that is not black
C11_Witness ==
  \E i \in Warped :
     /\ shift[i] # <<0, 0>>
     /\ \E p \in DOMAIN images[i].pix :
           ~InBounds(images[i], p[1] - shift[i][1], p[2] - shift[i][2])
     /\ \E p \in DOMAIN images[i].pix :
           /\ InBounds(images[i], p[1] - shift[i][1], p[2] - shift[i][2])
           /\ alignedImages[i].pix[p] # Black

(***************************************************************************)
(* Properties of the whole reconstruction.                                 *)
(***************************************************************************)
\* the normalization loop has started, or has finished
Normalizing == mainPc \in {"normalize", "ret"}

\* C13: normalization reads the buffers only after every one of the N frames
\* has been completely accumulated by its worker, and every frame's
\* alignment has completed before the first upscale starts.
C13_JoinsBeforeReads ==
  /\ Normalizing =>
        /\ sendI = NumImages
        /\ taskChan = <<>>
        /\ wg = 0
        /\ \A w \in Workers : wpc[w] \in {"recv", "exit"}
  /\ mainPc \in {"send", "wait", "close", "normalize", "ret"} =>
        /\ alignPc = "ret"
        /\ \A i \in DOMAIN images : slotWrites[i] = 1
        /\ \A i \in DOMAIN gpc :
              aligner = "findAndAlignImages" => gpc[i] = "done"

\* the current revision is about to normalize two frames, the second of
\* which was aligned by a goroutine
C13_Witness ==
  /\ mainPc = "normalize" /\ revision = "buffered"
  /\ NumImages = 2 /\ gpc[1] = "done"
  /\ \A c \in Cells : weights[c] > 0

\* C15: for a frame set consisting of one raster R repeated N times and
\* upscale factor 1, every pixel of the returned raster has the channel
\* values of the corresponding pixel of R.
C15_Idempotence ==
  (/\ mainPc = "ret" /\ upscaleFactor = 1
   /\ \A i \in DOMAIN images : images[i] = images[0]) =>
     /\ highResImg.w = images[0].w /\ highResImg.h = images[0].h
     /\ \A c \in DOMAIN images[0].pix : highResImg.pix[c] = images[0].pix[c]

\* C20: whenever some offset of the search window has a non-empty overlap,
\* the offset the estimator returns has a non-empty overlap too, also for
\* rasters whose width or height is not larger than the search radius.
C20_ReturnsOverlappingOffset ==
  (pc = "ret" /\ \E o \in Window : Overlap(ref, cand, o[1], o[2]) # {}) =>
     Overlap(ref, cand, best.dx, best.dy) # {}

\* C19: when frame C is the reference R translated by an integer offset and
\* the estimator returns that offset, the aligned frame equals R at every
\* pixel that is not padding: the warp cancels the estimated translation.
\* (The padding is black; in a frame made from a reference without black
\* pixels, the pixels that are not padding are those that are not black.)
C19_WarpCancelsShift ==
  \A i \in Warped :
     \A o \in Window :
        (/\ ShiftedBy(i, o) /\ shift[i] = o
         /\ \A p \in DOMAIN images[0].pix : images[0].pix[p] # Black) =>
           \A p \in DOMAIN images[0].pix :
              alignedImages[i].pix[p] # Black =>
                 alignedImages[i].pix[p] = images[0].pix[p]

RECURSIVE SumOver(_, _, _, _)
\* the sum of cell c's sample of channel ch over the first n of the frames
SumOver(frames, c, ch, n) ==
  IF n = 0 THEN 0
  ELSE SumOver(frames, c, ch, n - 1) + Sample(frames[n - 1], c[1], c[2], ch)

\* the output pixel of cell c when the frames, already of the canvas' size,
\* are fused at factor 1 and no worker's update is lost
FusedPixel(frames, c) ==
  LET n == Cardinality(DOMAIN frames)
  IN  <<Normalized(SumOver(frames, c, 1, n), n),
        Normalized(SumOver(frames, c, 2, n), n),
        Normalized(SumOver(frames, c, 3, n), n)>>

\* C16: for two 4 x 4 solid-gray rasters, the second being the first shifted
\* by (1, 0) with black padding, upscale factor 1 and a search radius of at
\* least 1, the estimator returns (1, 0) and the output equals the gray
\* raster at every pixel outside one column.
C16_EndToEnd ==
  (alignPc = "ret" /\ images = GrayScenario) =>
     /\ shift[1] = <<1, 0>>
     /\ \E col \in 0 .. 3 :
           \A c \in Coords(4, 4) :
              c[1] # col => FusedPixel(alignedImages, c) = Gray

\* the frame set is empty, the factor is not positive, a frame's dimensions
\* differ from the reference's, or a raster has no area
PreconditionViolated ==
  \/ NumImages = 0
  \/ upscaleFactor <= 0
  \/ \E i \in DOMAIN images :
        \/ images[i].w # images[0].w \/ images[i].h # images[0].h
        \/ images[i].w * images[i].h = 0

\* C17: on a precondition violation performSuperResolution aborts the call
\* and never returns an output raster.
C17_RejectsInvalidInput ==
  PreconditionViolated => (mainPc # "ret" /\ highResImg = NoImage)

(***************************************************************************)
(* Properties of uploadHandler.                                            *)
(***************************************************************************)
\* performSuperResolution has been called
Called == handlerPc = "call" \/ (handlerPc = "done" /\ maxScale # 0)

\* C18: uploadHandler calls performSuperResolution only when every uploaded
\* file decoded successfully and at least one image exists, and then with
\* the factor floor(sqrt(number of images)), which is at least 1; when a file
\* does not decode or no image is uploaded it responds with an error and
\* performs no reconstruction.
C18_ReconstructsValidUploadsOnly ==
  /\ Called =>
        /\ \A k \in DOMAIN files :
              files[k].ok /\ \E j \in DOMAIN decoded : decoded[j] = k
        /\ Len(decoded) >= 1
        /\ maxScale >= 1
        /\ maxScale * maxScale <= Len(decoded)
        /\ Len(decoded) < (maxScale + 1) * (maxScale + 1)
  /\ (handlerPc = "done" /\ (files = <<>> \/ \E k \in DOMAIN files : ~files[k].ok)) =>
        (response = "error" /\ ~Called)

Holders(i) == {w \in Workers : wpc[w] \in {"read", "write"} /\ wimg[w] = i}

\* how many times frame i is in the channel
Queued(i) == Cardinality({k \in 1 .. Len(taskChan) : taskChan[k] = i})

\* the calling goroutine is past wg.Wait()
PastWait ==
  \/ mainPc \in {"normalize", "ret"}
  \/ revision = "unbuffered" /\ mainPc = "close"

\* C22: every frame put on the channel is taken by exactly one worker, which
\* runs the accumulation loops over it exactly once: at any time a frame
\* that was sent is either in the channel, or held by one worker, or done
\* once; the WaitGroup counter is never negative; and when wg.Wait has
\* returned the accumulation loops have been completed once for each of the N
\* frames.
C22_EachFrameFusedOnce ==
  (revision \in {"buffered", "unbuffered"} /\ mainPc \in {"send", "wait", "close", "normalize", "ret"}) =>
     /\ wg >= 0
     /\ \A i \in DOMAIN upscaled :
           Queued(i) + Cardinality(Holders(i)) + fusions[i]
             = IF i < sendI THEN 1 ELSE 0
     /\ PastWait => \A i \in DOMAIN upscaled : fusions[i] = 1

C22_Witness ==
  /\ revision = "buffered" /\ NumUpscaled = MaxFused /\ mainPc = "normalize"
  /\ \A i \in DOMAIN upscaled : fusions[i] = 1
  /\ \E w \in Workers : wpc[w] = "recv"

\* what is left to do: a pending goroutine has its send and the caller the
\* matching receive, a queued result has its receive, the closer its close,
\* the caller its return; estimateTranslation has the rest of its scan
Variant ==
  CASE pc = "ret" -> 0
    [] pc # "ret" /\ estimator = "estimateTranslation" ->
         1 + (NumOffsets - scanK)
    [] pc = "start" /\ estimator = "findOverlap" -> 2 * NumOffsets + 3
    [] pc = "range" ->
         1 + 2 * Cardinality(pending) + Len(resultsChan)
           + (IF closer = "wait" THEN 1 ELSE 0)

\* some goroutine can take a step: the caller (spawn, receive, return, or a
\* step of estimateTranslation's scan), a pending goroutine whose send finds
\* room, or the closer
CanStep ==
  \/ ENABLED OverlapSpawn
  \/ pending # {} /\ Len(resultsChan) < NumOffsets
  \/ ENABLED OverlapClose
  \/ ENABLED OverlapRecv
  \/ ENABLED OverlapReturn
  \/ estimator = "estimateTranslation" /\ pc \in {"start", "scan"}

\* C23: findOverlap evaluates each of the (2S+1)^2 candidates exactly once,
\* with no early exit; a goroutine that has its result to send finds room in
\* the channel; the channel is closed once, after every result has been
\* sent; the caller has received every result once when it returns; and
\* findOverlap terminates: every step brings it nearer to its return, and
\* only after the return is there no step left to take.
C23_ExhaustiveAndTerminates ==
  /\ [](estimator = "findOverlap" =>
          /\ \A k \in 0 .. NumOffsets - 1 :
                /\ sends[k] = (IF pc = "start" \/ k \in pending THEN 0 ELSE 1)
                /\ recvs[k] <= sends[k]
          /\ pending # {} => Len(resultsChan) < NumOffsets
          /\ closed <=> closer = "done"
          /\ closed => \A k \in 0 .. NumOffsets - 1 : sends[k] = 1
          /\ pc = "ret" => \A k \in 0 .. NumOffsets - 1 : recvs[k] = 1)
  /\ [][Variant' < Variant]_vars
  /\ [](pc # "ret" => CanStep)

C23_Witness ==
  /\ estimator = "findOverlap" /\ pc = "ret" /\ closed
  /\ \A k \in 0 .. NumOffsets - 1 : sends[k] = 1 /\ recvs[k] = 1

\* the reference pixels the metric compares at offset (x, y): those its
\* scan does not skip
ComparedPixels(x, y) ==
  {c \in Coords(ref.w, ref.h) :
     IF estimator = "findOverlap"
     THEN ~DiffSkips(ref, cand, c[1] + x, c[2] + y)
     ELSE ~SSDSkips(ref, cand, c[1] + x, c[2] + y)}

\* C24: for a reference and a candidate of equal or different size and every
\* offset, the metric (calculateDifference and computeSSD alike) compares
\* exactly the pairs R(x,y), C(x+dx,y+dy) with (x,y) inside R and
\* (x+dx,y+dy) inside C: it reads no candidate coordinate outside C and
\* skips no pair in bounds for both; and its result is not negative.
C24_ComparesExactlyTheOverlap ==
  \A m \in Computed :
     /\ ComparedPixels(m.x, m.y) = Overlap(ref, cand, m.x, m.y)
     /\ FLeq(FZero, m.value)

\* C25: concurrent invocations of performSuperResolution each make their own
\* buffers, channel and WaitGroup; a step of one invocation's goroutines
\* touches nothing that another invocation made; and each invocation returns
\* an output it can return when it runs alone.
C25_InvocationsIsolated ==
  /\ [](\A c, d \in Calls :
          (c # d /\ calls[c].obj # 0 /\ calls[d].obj # 0) =>
             calls[c].obj # calls[d].obj)
  /\ [][\A a \in DOMAIN objects :
          objects'[a] # objects[a] =>
             \A c \in Calls : calls'[c] # calls[c] <=> calls[c].obj = a]_vars
  /\ [](\A c \in Calls :
          calls[c].pc = "ret" => calls[c].out \in AloneOutputs(calls[c].imgs))

C25_Witness ==
  /\ \A c \in Calls : calls[c].pc = "ret"
  /\ NumFrames(1) = MaxFused
  /\ calls[1].out.pix[<<0, 0>>] = <<1, 1, 1>>
  /\ calls[2].out.pix[<<0, 0>>] = <<255, 255, 255>>

\* C26: alignment, upscaling and fusion leave the input frames as they were:
\* at every moment of the invocation and after its return each input raster,
\* the reference that is passed on as aligned element 0 included, holds the
\* pixels it held at the call; and no step changes a raster that exists
\* already, shiftImage and the upscale write into rasters made for them.
C26_InputsUnchanged ==
  /\ [](\A a \in DOMAIN refs.before : store[a] = refs.before[a])
  /\ [](refs.pc # "entry" => refs.alignedImages[0] = refs.images[0])
  /\ [][\A a \in DOMAIN store : store'[a] = store[a]]_vars

C26_Witness ==
  /\ refs.pc = "ret"
  /\ Cardinality(DOMAIN refs.images) = 2
  /\ store[refs.alignedImages[1]] # store[refs.images[1]]
  /\ store[refs.upscaled[0]] = store[refs.images[0]]
  /\ refs.upscaled[0] # refs.images[0]

\* canvas cell c is the image of a source pixel: both coordinates are
\* multiples of the factor
OnGrid(c) == c[1] % upscaleFactor = 0 /\ c[2] % upscaleFactor = 0

\* C27: in the revision that fuses without alignment or interpolation, when
\* the N frames have been accumulated at factor U the weight of canvas cell
\* (X, Y) is N if X and Y are multiples of U and 0 otherwise; the output
\* pixel at (x*U, y*U) is the rounded mean of source pixel (x, y) over the N
\* frames, and every other output pixel is opaque white.
C27_SparseGrid ==
  (revision = "sequential" /\ mainPc \in {"normalize", "ret"}) =>
     /\ \A c \in Cells :
           weights[c] = (IF OnGrid(c) THEN NumUpscaled ELSE 0)
     /\ mainPc = "ret" =>
           \A c \in Cells :
              /\ highResImg.alpha[c] = 255
              /\ IF OnGrid(c)
                 THEN \A ch \in 1 .. 3 :
                         RoundsTo(SumOver(upscaled,
                                          <<c[1] \div upscaleFactor,
                                            c[2] \div upscaleFactor>>,
                                          ch, NumUpscaled),
                                  NumUpscaled, highResImg.pix[c][ch])
                 ELSE highResImg.pix[c] = White

C27_Witness ==
  /\ revision = "sequential" /\ mainPc = "ret"
  /\ upscaleFactor = MaxFactor /\ upscaled = TwoCellFrames
  /\ highResImg.pix[<<upscaleFactor, 0>>] = <<1, 1, 1>>
  /\ highResImg.pix[<<1, 0>>] = White

====
